---- MODULE Spec2Model ----
(***************************************************************************)
(* Discovery and refresh engine of VSOLMonitorEmpresarial                  *)
(* (src/monitor_vsol.py): the scan pass with its per-range worker pools,   *)
(* the per-address identification (SNMP first, then the shell prober with  *)
(* credential rotation), the in-memory device map olts_detectadas, the     *)
(* persisted device table and the refresh pass.                            *)
(*                                                                         *)
(* Representation.  A text is a sequence of lines, a line a sequence of    *)
(* whitespace-separated tokens, a token a sequence of one-character        *)
(* strings.  Python's None is the empty tuple and a present value v is     *)
(* <<v>>.  An address f"{rango_ip}{i}" is the pair <<rango_ip, i>>.        *)
(***************************************************************************)
EXTENDS Integers, Sequences, FiniteSets, TLC

VARIABLES
    net,              \* the network: what answers at each address
    olts_detectadas,  \* self.olts_detectadas: address -> OLTInfo
    db_olts,          \* table olts of the database: address -> row
    scanning,         \* escanear_red_empresarial is between its start and its return
    cola,             \* per range, the suffixes submitted to its executor and not yet started
    tarea,            \* per address, the verificar_ip task: its position and its local olt_info
    refresco,         \* actualizar_todas_olts: its position, the keys left, the count
    db_conn,          \* self.db.conn: what a statement on the connection does
    calc,             \* the last call of a pure function: its name, argument and result
    h                 \* history: what the passes did (read by the properties only)

vars == <<net, olts_detectadas, db_olts, scanning, cola, tarea, refresco, db_conn,
          calc, h>>

(***************************************************************************)
(* Bounds of the model.                                                    *)
(***************************************************************************)
\* The last host suffix of a range; it stands for the 254 of range(1, 254).
LastSuffix == 4

\* The width of the pool of a range; it stands for the 20 of
\* ThreadPoolExecutor(max_workers=20).
max_workers == 2

\* The most units of one device in the calls of the pure functions
MaxOnus == 3

(***************************************************************************)
(* Configuration.                                                          *)
(***************************************************************************)
None == <<>>

Some(v) == <<v>>

\* self.rangos_ip (two of its five prefixes)
rangos_ip == <<"10.0.0.", "192.168.1.">>

\* self.credenciales (three of its five entries, in order)
credenciales ==
    << [username |-> "admin", password |-> "admin"],
       [username |-> "admin", password |-> "Admin123!"],
       [username |-> "admin", password |-> "vsol123"] >>

\* self.communities = SNMP_CONFIG['communities'] (an ordered list)
communities == <<"public", "private">>

\* sysdescr[:50], linea.strip()[:50]
MaxModelo == 50

RangeSet == {rangos_ip[k] : k \in DOMAIN rangos_ip}

\* range(a, b) of Python: b is excluded
PyRange(a, b) == a .. (b - 1)

\* Every host address of the configured ranges
Hosts == 1 .. LastSuffix

Addr == RangeSet \X Hosts

(***************************************************************************)
(* Text.                                                                   *)
(***************************************************************************)
LowerAlpha ==
    <<"a","b","c","d","e","f","g","h","i","j","k","l","m",
      "n","o","p","q","r","s","t","u","v","w","x","y","z">>

UpperAlpha ==
    <<"A","B","C","D","E","F","G","H","I","J","K","L","M",
      "N","O","P","Q","R","S","T","U","V","W","X","Y","Z">>

UpperChar(c) ==
    IF \E i \in DOMAIN LowerAlpha : LowerAlpha[i] = c
    THEN UpperAlpha[CHOOSE i \in DOMAIN LowerAlpha : LowerAlpha[i] = c]
    ELSE c

LowerChar(c) ==
    IF \E i \in DOMAIN UpperAlpha : UpperAlpha[i] = c
    THEN LowerAlpha[CHOOSE i \in DOMAIN UpperAlpha : UpperAlpha[i] = c]
    ELSE c

\* str.upper() and str.lower() of a token and of a line
UpperTok(t) == [i \in DOMAIN t |-> UpperChar(t[i])]

LowerTok(t) == [i \in DOMAIN t |-> LowerChar(t[i])]

UpperLine(l) == [i \in DOMAIN l |-> UpperTok(l[i])]

LowerLine(l) == [i \in DOMAIN l |-> LowerTok(l[i])]

\* `sub in t` for a token t
TokContains(t, sub) ==
    \E i \in 0 .. (Len(t) - Len(sub)) :
        \A j \in 1 .. Len(sub) : t[i + j] = sub[j]

\* `sub in linea` for a needle without white space
LineContains(l, sub) == \E i \in DOMAIN l : TokContains(l[i], sub)

\* `sub in text` for a needle without white space or line break
TextContains(txt, sub) == \E i \in DOMAIN txt : LineContains(txt[i], sub)

\* The length of a line as a string: its tokens and one blank between two
LineLen(l) ==
    IF l = <<>> THEN 0
    ELSE LET F[i \in 0 .. Len(l)] ==
                 IF i = 0 THEN 0 ELSE F[i - 1] + Len(l[i]) + (IF i > 1 THEN 1 ELSE 0)
         IN F[Len(l)]

\* s[:n] of a line: the tokens that fit whole, then the cut token
Truncar(l, n) ==
    LET Start(i) == LineLen(SubSeq(l, 1, i - 1)) + (IF i > 1 THEN 1 ELSE 0)
        Kept == {i \in DOMAIN l : Start(i) < n}
    IN  [i \in 1 .. Cardinality(Kept) |->
            IF Start(i) + Len(l[i]) <= n THEN l[i]
            ELSE SubSeq(l[i], 1, n - Start(i))]

(***************************************************************************)
(* Records.                                                                *)
(***************************************************************************)
EmptyDict == [x \in {} |-> 0]

\* OLTInfo(ip, nombre, modelo) and its __post_init__; snmp_community is the
\* attribute verificar_ip attaches: None stands for "no such attribute".
OLTInfo(ip, nombre, modelo) ==
    [ ip |-> ip, nombre |-> nombre, modelo |-> modelo,
      temperatura |-> None, consumo_cpu |-> None, consumo_memoria |-> None,
      total_onus |-> 0, onus_por_puerto |-> EmptyDict, onus_detalladas |-> <<>>,
      snmp_community |-> None ]

\* ONUInfo(serial, interfaz, slot, puerto, rx_power, tx_power, estado)
ONUInfo(serial, interfaz, slot, puerto, rx_power, tx_power, estado) ==
    [ serial |-> serial, interfaz |-> interfaz, slot |-> slot, puerto |-> puerto,
      rx_power |-> rx_power, tx_power |-> tx_power, estado |-> estado ]

(***************************************************************************)
(* The network.  What answers at one address is a record:                  *)
(*   sysdescr     per community (in the order of communities), the answer  *)
(*                of the sysDescr query: None or <<line>>                  *)
(*   sysname      the answer of the sysName query under an accepted        *)
(*                community: None or <<name>>                              *)
(*   port22       whether a TCP connect to port 22 succeeds                *)
(*   ssh          per credential (in the order of credenciales), what      *)
(*                ssh.connect does: "ok", or the exception it raises       *)
(*   cmd_ok       whether exec_command yields output (FALSE: it raises or  *)
(*                the output is empty, and ejecutar_comando returns "")    *)
(*   version_info, system_info   the outputs of show version, show system  *)
(*   temperatura, cpu, memoria   the values the extractors read from the   *)
(*                outputs of the three telemetry commands: None or <<n>>   *)
(*   onus         the lines of the output of show gpon onu state, each     *)
(*                with its tokens (partes) and the outputs of the three    *)
(*                detail commands for that unit (detalles)                 *)
(***************************************************************************)
ConnectFailures == {"auth", "timeout", "neterr"}

\* snmp_get(ip, oid, community): the value as a string, or None on an error
\* indication, an error status or an exception
snmp_get(dev, oid, k) ==
    IF oid = "sysDescr" THEN dev.sysdescr[k]
    ELSE IF dev.sysdescr[k] # None THEN dev.sysname
    ELSE None

\* puerto_abierto(ip, 22): connect_ex == 0; any exception is False
puerto_abierto(dev) == dev.port22

\* ssh.connect(ip, username, password, timeout=10): "ok" or the exception
ssh_connect(dev, k) ==
    IF ~dev.port22 THEN "neterr" ELSE dev.ssh[k]

\* ejecutar_comando(ssh, comando): the output, "" on an exception
ejecutar_comando(dev, salida) == IF dev.cmd_ok THEN salida ELSE <<>>

\* The markers of probar_snmp_olt: 'VSOL', 'OLT', 'GPON'
MarcasSnmp ==
    { <<"V","S","O","L">>, <<"O","L","T">>, <<"G","P","O","N">> }

\* indicadores of es_olt_vsol: 'VSOL', 'V-SOL', 'GPON', 'OLT'
indicadores ==
    { <<"V","S","O","L">>, <<"V","-","S","O","L">>,
      <<"G","P","O","N">>, <<"O","L","T">> }

\* A marker test that compares the description as it was received
SysdescrEsOltSensible(sysdescr) ==
    /\ sysdescr # None
    /\ sysdescr[1] # <<>>
    /\ \E m \in MarcasSnmp : LineContains(sysdescr[1], m)

\* The test of probar_snmp_olt on the answer of the sysDescr query
SysdescrEsOlt(sysdescr) ==
    /\ sysdescr # None
    /\ sysdescr[1] # <<>>
    /\ \E m \in MarcasSnmp : LineContains(UpperLine(sysdescr[1]), m)

\* es_olt_vsol(version_info)
es_olt_vsol(version_info) ==
    /\ version_info # <<>>
    /\ \E ind \in indicadores :
           \E i \in DOMAIN version_info :
               LineContains(UpperLine(version_info[i]), ind)

\* extraer_nombre_sistema(system_info): the last token of the first line that
\* holds 'hostname' or 'nombre' and has two tokens or more; else OLT-<HHMM>
extraer_nombre_sistema(system_info) ==
    LET hit(i) ==
            /\ \/ LineContains(LowerLine(system_info[i]), <<"h","o","s","t","n","a","m","e">>)
               \/ LineContains(LowerLine(system_info[i]), <<"n","o","m","b","r","e">>)
            /\ Len(system_info[i]) > 1
        hits == {i \in DOMAIN system_info : hit(i)}
    IN  IF hits = {} THEN <<"OLT-", "HHMM">>
        ELSE LET i == CHOOSE x \in hits : \A y \in hits : x <= y
             IN  system_info[i][Len(system_info[i])]

\* extraer_modelo(version_info): the first line that holds 'model' or
\* 'hardware', cut to 50 characters; else VSOL-OLT
extraer_modelo(version_info) ==
    LET hit(i) ==
            \/ LineContains(LowerLine(version_info[i]), <<"m","o","d","e","l">>)
            \/ LineContains(LowerLine(version_info[i]), <<"h","a","r","d","w","a","r","e">>)
        hits == {i \in DOMAIN version_info : hit(i)}
    IN  IF hits = {} THEN << <<"V","S","O","L","-","O","L","T">> >>
        ELSE Truncar(version_info[CHOOSE x \in hits : \A y \in hits : x <= y], MaxModelo)

\* A prober that queries every community and keeps the last that matched
RECURSIVE ProbarSnmpTodas(_, _, _)
ProbarSnmpTodas(ip, dev, k) ==
    IF k > Len(communities) THEN [info |-> None, consultas |-> <<>>]
    ELSE LET sysdescr == snmp_get(dev, "sysDescr", k)
             r == ProbarSnmpTodas(ip, dev, k + 1)
         IN  [ info |-> IF r.info # None \/ ~SysdescrEsOlt(sysdescr) THEN r.info
                        ELSE Some([ ip |-> ip, nombre |-> <<"OLT-", ip[2]>>,
                                    modelo |-> Truncar(sysdescr[1], MaxModelo),
                                    community |-> communities[k] ]),
               consultas |-> << communities[k] >> \o r.consultas ]

\* probar_snmp_olt(ip): the communities in order, from the k-th on.  info is
\* the dictionary returned (None: no match); consultas lists the sysDescr
\* queries made, in order.
RECURSIVE ProbarSnmpDesde(_, _, _)
ProbarSnmpDesde(ip, dev, k) ==
    IF k > Len(communities) THEN [info |-> None, consultas |-> <<>>]
    ELSE
        LET sysdescr == snmp_get(dev, "sysDescr", k)
            sysname  == snmp_get(dev, "sysName", k)
        IN  IF SysdescrEsOlt(sysdescr)
            THEN [ info |-> Some([ ip |-> ip,
                                   nombre |-> IF sysname # None /\ sysname[1] # <<>>
                                              THEN sysname[1]
                                              ELSE <<"OLT-", ip[2]>>,
                                   modelo |-> Truncar(sysdescr[1], MaxModelo),
                                   community |-> communities[k] ]),
                   consultas |-> << communities[k] >> ]
            ELSE LET r == ProbarSnmpDesde(ip, dev, k + 1)
                 IN  [ info |-> r.info,
                       consultas |-> << communities[k] >> \o r.consultas ]

probar_snmp_olt(ip, dev) == ProbarSnmpDesde(ip, dev, 1)

(***************************************************************************)
(* The telemetry extractors.  A float is its value in hundredths; the       *)
(* result of an extractor is [tipo |-> "valor", v |-> ...] for a returned   *)
(* value, [tipo |-> "None"] for None and [tipo |-> "raise"] for an          *)
(* exception that leaves it.                                                *)
(***************************************************************************)
Digitos == <<"0","1","2","3","4","5","6","7","8","9">>

EsDigito(c) == \E i \in DOMAIN Digitos : Digitos[i] = c

ValorDigito(c) == (CHOOSE i \in DOMAIN Digitos : Digitos[i] = c) - 1

\* parte.replace(c, '')
Quitar(t, c) == SelectSeq(t, LAMBDA x : x # c)

\* str.isdigit(): not empty and every character a digit
isdigit(t) == t # <<>> /\ \A i \in DOMAIN t : EsDigito(t[i])

\* The number a string of digits writes
RECURSIVE ValorEntero(_)
ValorEntero(t) ==
    IF t = <<>> THEN 0
    ELSE 10 * ValorEntero(SubSeq(t, 1, Len(t) - 1)) + ValorDigito(t[Len(t)])

\* float(t) accepts t, for a t of digits, points and minus signs: one
\* optional leading sign, at most one point, one digit or more
FloatValido(t) ==
    LET cuerpo == IF t # <<>> /\ t[1] = "-" THEN Tail(t) ELSE t
        puntos == {i \in DOMAIN cuerpo : cuerpo[i] = "."}
    IN  /\ Cardinality(puntos) <= 1
        /\ isdigit(Quitar(cuerpo, "."))

\* float(t) in hundredths, for a t it accepts with two decimals at most
ValorFloat(t) ==
    LET neg == t[1] = "-"
        cuerpo == IF neg THEN Tail(t) ELSE t
        puntos == {i \in DOMAIN cuerpo : cuerpo[i] = "."}
        pt == IF puntos = {} THEN Len(cuerpo) + 1 ELSE CHOOSE i \in puntos : TRUE
        entero == SubSeq(cuerpo, 1, pt - 1)
        frac == SubSeq(cuerpo, pt + 1, Len(cuerpo))
        centesimas == IF Len(frac) = 0 THEN 0
                      ELSE IF Len(frac) = 1 THEN 10 * ValorEntero(frac)
                      ELSE ValorEntero(SubSeq(frac, 1, 2))
        abs == 100 * ValorEntero(entero) + centesimas
    IN  IF neg THEN 0 - abs ELSE abs

Valor(v) == [tipo |-> "valor", v |-> v]

Nada == [tipo |-> "None"]

Lanza == [tipo |-> "raise"]

\* float(parte) as a result
Flotante(t) == IF FloatValido(t) THEN Valor(ValorFloat(t)) ELSE Lanza

\* The positions <<line, token>> of a text, and their reading order
Posiciones(output) ==
    UNION { { <<i, j>> : j \in DOMAIN output[i] } : i \in DOMAIN output }

Antes(p, q) == p[1] < q[1] \/ (p[1] = q[1] /\ p[2] <= q[2])

Primera(ps) == CHOOSE p \in ps : \A q \in ps : Antes(p, q)

\* parte.replace('.', '').replace('-', '').isdigit()
ParteNumerica(t) == isdigit(Quitar(Quitar(t, "."), "-"))

\* The loop shared by extraer_temperatura, extraer_rx_power and
\* extraer_tx_power: float() of the first number-like token of the lines
\* that hold every trigger word; centinela when there is none
ExtraerNumero(output, disparadores, centinela) ==
    LET ps == { p \in Posiciones(output) :
                  /\ \A d \in disparadores : LineContains(LowerLine(output[p[1]]), d)
                  /\ ParteNumerica(output[p[1]][p[2]]) }
    IN  IF ps = {} THEN centinela
        ELSE Flotante(output[Primera(ps)[1]][Primera(ps)[2]])

extraer_temperatura(output) ==
    ExtraerNumero(output, { <<"t","e","m","p","e","r","a","t","u","r","e">> }, Nada)

extraer_rx_power(output) ==
    ExtraerNumero(output, { <<"r","x">>, <<"p","o","w","e","r">> }, Valor(0 - 99900))

extraer_tx_power(output) ==
    ExtraerNumero(output, { <<"t","x">>, <<"p","o","w","e","r">> }, Valor(0 - 99900))

\* extraer_porcentaje(output): float() of the first token with a '%' whose
\* rest float() accepts (try / except: continue); None when there is none
extraer_porcentaje(output) ==
    LET ps == { p \in Posiciones(output) :
                  /\ TokContains(output[p[1]][p[2]], <<"%">>)
                  /\ FloatValido(Quitar(output[p[1]][p[2]], "%")) }
    IN  IF ps = {} THEN Nada
        ELSE Valor(ValorFloat(Quitar(output[Primera(ps)[1]][Primera(ps)[2]], "%")))

\* extraer_serial(output): the last token of the first line that holds
\* 'serial' or 'sn' and has two tokens or more; None when there is none
extraer_serial(output) ==
    LET hits == { i \in DOMAIN output :
                    /\ \/ LineContains(LowerLine(output[i]), <<"s","e","r","i","a","l">>)
                       \/ LineContains(LowerLine(output[i]), <<"s","n">>)
                    /\ Len(output[i]) > 1 }
    IN  IF hits = {} THEN Nada
        ELSE LET i == CHOOSE x \in hits : \A y \in hits : x <= y
             IN  Valor(output[i][Len(output[i])])

\* The connection self.db.conn.  is_sqlite is the engine; estado says what a
\* statement does: "ok" it runs, "error" it raises and the connection stays
\* usable, "cerrada" the connection is closed (every call on it raises,
\* rollback included).
EstadosDb ==
    [ is_sqlite : BOOLEAN, estado : {"ok", "error", "cerrada"} ]

DbSana == [is_sqlite |-> FALSE, estado |-> "ok"]

\* guardar_olt, guardar_onu, guardar_metrica: whether an exception leaves
\* them.  The statement raises inside their try; the except block logs and,
\* unless the engine is SQLite, calls self.conn.rollback(), which raises on a
\* closed connection.
GuardarLanza(conn) == conn.estado = "cerrada" /\ ~conn.is_sqlite

\* split('/') of a token: the pieces between the slashes
RECURSIVE SplitSlash(_)
SplitSlash(t) ==
    LET cuts == {i \in DOMAIN t : t[i] = "/"}
    IN  IF cuts = {} THEN << t >>
        ELSE LET c == CHOOSE x \in cuts : \A y \in cuts : x <= y
             IN  << SubSeq(t, 1, c - 1) >> \o SplitSlash(SubSeq(t, c + 1, Len(t)))

\* A line of the listing is a unit row: 'gpon' in linea.lower() and 'onu' in
\* linea.lower(), and len(partes) >= 4
EsFilaDeUnidad(fila) ==
    /\ LineContains(LowerLine(fila.partes), <<"g","p","o","n">>)
    /\ LineContains(LowerLine(fila.partes), <<"o","n","u">>)
    /\ Len(fila.partes) >= 4

\* A row of the listing raises IndexError in obtener_informacion_onus when
\* its interface token holds exactly one slash (split('/')[2])
FilaFalla(fila) == Len(SplitSlash(fila.partes[1])) = 2

\* output.lower() of a text
LowerText(output) == [i \in DOMAIN output |-> LowerLine(output[i])]

\* A reading of the extractors as the float it is.  The listings of the
\* model hold whole numbers only, and a float is held as that number.
EnDbm(r) == r.v \div 100

\* The detail commands of obtener_detalles_onu, in the order of its list
comandos ==
    << "show gpon onu detail", "show onu opm-diag", "show gpon onu optical-info" >>

\* return None, -999, -999
SinDetalles(ejecutados) ==
    [ serial |-> None, rx_power |-> 0 - 999, tx_power |-> 0 - 999,
      ejecutados |-> ejecutados ]

\* A loop over the detail commands that looks for 'invalid' in the output
\* as it came, not in output.lower()
RECURSIVE DetallesDesdeSensible(_, _, _)
DetallesDesdeSensible(dev, fila, k) ==
    IF k > Len(comandos) THEN SinDetalles(<<>>)
    ELSE LET output == ejecutar_comando(dev, fila.detalles[k])
             serial == extraer_serial(output)
             rx_power == extraer_rx_power(output)
             tx_power == extraer_tx_power(output)
             resto == DetallesDesdeSensible(dev, fila, k + 1)
         IN  IF output # <<>>
                /\ ~TextContains(output, <<"i","n","v","a","l","i","d">>)
             THEN IF rx_power = Lanza \/ tx_power = Lanza
                  THEN SinDetalles(<< comandos[k] >>)
                  ELSE [ serial |-> IF serial = Nada THEN None ELSE Some(serial.v),
                         rx_power |-> EnDbm(rx_power), tx_power |-> EnDbm(tx_power),
                         ejecutados |-> << comandos[k] >> ]
             ELSE [ resto EXCEPT !.ejecutados = << comandos[k] >> \o @ ]

\* obtener_detalles_onu(ssh, interfaz, onu_id): the loop over the commands
\* from the k-th on.  ejecutados lists the commands run, in order.  An
\* extractor that raises ends in the except branch: None, -999, -999.
\* return serial, rx_power, tx_power, from what the extractors gave for the
\* output of the k-th command
DetallesLeidos(k, serial, rx_power, tx_power) ==
    IF rx_power = Lanza \/ tx_power = Lanza
    THEN SinDetalles(<< comandos[k] >>)
    ELSE [ serial |-> IF serial = Nada THEN None ELSE Some(serial.v),
           rx_power |-> EnDbm(rx_power), tx_power |-> EnDbm(tx_power),
           ejecutados |-> << comandos[k] >> ]

\* if output and 'invalid' not in output.lower()
SalidaUtil(output) ==
    output # <<>> /\ ~TextContains(LowerText(output), <<"i","n","v","a","l","i","d">>)

\* The turn of the loop for the k-th command, whose output is given, and
\* the rest of the loop
TrasComando(k, output, resto) ==
    IF SalidaUtil(output)
    THEN DetallesLeidos(k, extraer_serial(output), extraer_rx_power(output),
                        extraer_tx_power(output))
    ELSE [ resto EXCEPT !.ejecutados = << comandos[k] >> \o @ ]

RECURSIVE DetallesDesde(_, _, _)
DetallesDesde(dev, fila, k) ==
    IF k > Len(comandos) THEN SinDetalles(<<>>)
    ELSE TrasComando(k, ejecutar_comando(dev, fila.detalles[k]),
                     DetallesDesde(dev, fila, k + 1))

obtener_detalles_onu(dev, fila) == DetallesDesde(dev, fila, 1)

\* The ONUInfo obtener_informacion_onus builds from one row
OnuCon(partes, piezas, detalles) ==
    ONUInfo(IF detalles.serial # None /\ detalles.serial[1] # <<>>
            THEN detalles.serial[1]
            ELSE <<"UNKNOWN", partes[1], partes[2]>>,
            partes[1],
            IF Len(piezas) > 1 THEN piezas[2] ELSE <<"0">>,
            IF Len(piezas) > 1 THEN piezas[3] ELSE <<"0">>,
            detalles.rx_power, detalles.tx_power, partes[3])

OnuDeFila(dev, fila) ==
    OnuCon(fila.partes, SplitSlash(fila.partes[1]), obtener_detalles_onu(dev, fila))

\* A listing loop that gives up the units it had built when a row raises
RECURSIVE OnusDesdeDescarta(_, _, _, _)
OnusDesdeDescarta(dev, filas, i, conn) ==
    IF i > Len(filas) THEN [onus |-> <<>>, guardadas |-> <<>>, error |-> FALSE]
    ELSE IF ~EsFilaDeUnidad(filas[i]) THEN OnusDesdeDescarta(dev, filas, i + 1, conn)
    ELSE IF FilaFalla(filas[i]) THEN [onus |-> <<>>, guardadas |-> <<>>, error |-> TRUE]
    ELSE LET onu_info == OnuDeFila(dev, filas[i])
             resto == OnusDesdeDescarta(dev, filas, i + 1, conn)
         IN  IF resto.error THEN resto
             ELSE [ resto EXCEPT !.onus = << onu_info >> \o @,
                                 !.guardadas = << onu_info >> \o @ ]

\* The loop of obtener_informacion_onus from the i-th line of the listing
\* on.  onus is the list it has built, guardadas the units guardar_onu has
\* written, in order, error whether the except branch was taken.  A row
\* that raises ends the loop with what was built; a guardar_onu that raises
\* does so after its unit was appended.
\* onus.append(onu_info) and self.db.guardar_onu(onu_info, olt_ip), and the
\* rest of the loop.  A connection in estado "error" is one whose INSERT is
\* rejected, as PostgreSQL rejects a unit whose device has no row yet.
TrasUnidad(onu_info, resto, conn) ==
    IF GuardarLanza(conn)
    THEN [onus |-> << onu_info >>, guardadas |-> <<>>, error |-> TRUE]
    ELSE [ resto EXCEPT
             !.onus = << onu_info >> \o @,
             !.guardadas = IF conn.estado = "ok" THEN << onu_info >> \o @ ELSE @ ]

\* The turn of the loop for one line, and the rest of the loop
TrasLinea(dev, fila, resto, conn) ==
    IF ~EsFilaDeUnidad(fila) THEN resto
    ELSE IF FilaFalla(fila) THEN [onus |-> <<>>, guardadas |-> <<>>, error |-> TRUE]
    ELSE TrasUnidad(OnuDeFila(dev, fila), resto, conn)

RECURSIVE OnusDesde(_, _, _, _)
OnusDesde(dev, filas, i, conn) ==
    IF i > Len(filas) THEN [onus |-> <<>>, guardadas |-> <<>>, error |-> FALSE]
    ELSE TrasLinea(dev, filas[i], OnusDesde(dev, filas, i + 1, conn), conn)

\* obtener_informacion_onus(ssh, olt_ip) with what it wrote to the database
InformeDeOnus(dev, conn) ==
    OnusDesde(dev, ejecutar_comando(dev, dev.onus), 1, conn)

obtener_informacion_onus(dev, conn) == InformeDeOnus(dev, conn).onus

\* A count that records each interface once, however many units it has
contar_onus_por_puerto_sin_sumar(onus_info) ==
    [ p \in {onus_info[i].interfaz : i \in DOMAIN onus_info} |-> 1 ]

\* The loop of contar_onus_por_puerto from the i-th unit on:
\* conteo[puerto] = conteo.get(puerto, 0) + 1
RECURSIVE ContarDesde(_, _, _)
ContarDesde(onus_info, i, conteo) ==
    IF i > Len(onus_info) THEN conteo
    ELSE LET puerto == onus_info[i].interfaz
             get == IF puerto \in DOMAIN conteo THEN conteo[puerto] ELSE 0
         IN  ContarDesde(onus_info, i + 1,
                         [ p \in DOMAIN conteo \cup {puerto} |->
                             IF p = puerto THEN get + 1 ELSE conteo[p] ])

\* contar_onus_por_puerto(onus_info)
contar_onus_por_puerto(onus_info) == ContarDesde(onus_info, 1, EmptyDict)

\* What one telemetry extractor returns on the output of its command
Lectura(dev, valor) == IF dev.cmd_ok THEN valor ELSE None

\* `if valor:` for a reading: None and 0 are false
Verdadero(valor) == valor # None /\ valor[1] # 0

\* actualizar_informacion_olt(ssh, olt_info): the record as it leaves it.  A
\* guardar_metrica that raises ends the try block where it stands: what was
\* assigned before stays, the rest is not assigned.
\* A telemetry pass that keeps the units of the previous list whose serial
\* the new listing does not hold
actualizar_informacion_olt_fusiona(dev, olt_info, conn) ==
    LET onus_info == obtener_informacion_onus(dev, conn)
        nuevos == { onus_info[i].serial : i \in DOMAIN onus_info }
        fusion == SelectSeq(olt_info.onus_detalladas, LAMBDA o : o.serial \notin nuevos)
                     \o onus_info
        temperatura == Lectura(dev, dev.temperatura)
        cpu == Lectura(dev, dev.cpu)
        memoria == Lectura(dev, dev.memoria)
        con_temp == [ olt_info EXCEPT !.temperatura = temperatura ]
        con_cpu == [ con_temp EXCEPT !.consumo_cpu = cpu, !.consumo_memoria = memoria ]
    IN  IF GuardarLanza(conn) /\ Verdadero(temperatura) THEN con_temp
        ELSE IF GuardarLanza(conn) /\ (Verdadero(cpu) \/ Verdadero(memoria)) THEN con_cpu
        ELSE [ con_cpu EXCEPT
                 !.onus_detalladas = fusion,
                 !.total_onus = Len(fusion),
                 !.onus_por_puerto = contar_onus_por_puerto(fusion) ]

actualizar_informacion_olt(dev, olt_info, conn) ==
    LET onus_info == obtener_informacion_onus(dev, conn)
        temperatura == Lectura(dev, dev.temperatura)
        cpu == Lectura(dev, dev.cpu)
        memoria == Lectura(dev, dev.memoria)
        con_temp == [ olt_info EXCEPT !.temperatura = temperatura ]
        con_cpu == [ con_temp EXCEPT !.consumo_cpu = cpu, !.consumo_memoria = memoria ]
    IN  IF GuardarLanza(conn) /\ Verdadero(temperatura) THEN con_temp
        ELSE IF GuardarLanza(conn) /\ (Verdadero(cpu) \/ Verdadero(memoria)) THEN con_cpu
        ELSE [ con_cpu EXCEPT
                 !.onus_detalladas = onus_info,
                 !.total_onus = Len(onus_info),
                 !.onus_por_puerto = contar_onus_por_puerto(onus_info) ]

\* A connection failure that ends the loop instead of going on with the next
\* credential
TrasExcepcionAborta(k, c, resto) ==
    [ olt |-> None, excepcion |-> None, eventos |-> << <<"connect", k, c>> >> ]

\* except Exception as e: continue.  c is what ssh.connect raised for the
\* k-th credential, resto what the rest of the loop does: the loop goes on,
\* and nothing is raised to the caller.
TrasExcepcion(k, c, resto) ==
    [ olt |-> resto.olt, excepcion |-> resto.excepcion,
      eventos |-> << <<"connect", k, c>> >> \o resto.eventos ]

\* A session that is left open
CerrarSesionOmitido(k) == <<>>

\* ssh.close() on the session opened with the k-th credential
CerrarSesion(k) == << <<"close", k>> >>

\* identificar_olt_vsol(ip): the credentials in order, from the k-th on.
\* olt is the record returned (None: no match); excepcion is the exception
\* that leaves the function (None: it returns); eventos lists, in order, the
\* connection attempts <<"connect", k, outcome>> and the closes <<"close", k>>.
RECURSIVE IdentificarDesde(_, _, _, _)
IdentificarDesde(ip, dev, k, conn) ==
    IF k > Len(credenciales)
    THEN [olt |-> None, excepcion |-> None, eventos |-> <<>>]
    ELSE
        LET c == ssh_connect(dev, k)
            resto == IdentificarDesde(ip, dev, k + 1, conn)
            version_info == ejecutar_comando(dev, dev.version_info)
            system_info == ejecutar_comando(dev, dev.system_info)
        IN  IF c # "ok"
            THEN TrasExcepcion(k, c, resto)
            ELSE IF es_olt_vsol(version_info)
            THEN [ excepcion |-> None,
                   olt |-> Some(actualizar_informacion_olt(dev,
                               OLTInfo(ip, extraer_nombre_sistema(system_info),
                                       extraer_modelo(version_info)), conn)),
                   eventos |-> << <<"connect", k, "ok">> >> \o CerrarSesion(k) ]
            ELSE \* ssh.close(), and the loop goes on with the next credential
                 [ olt |-> resto.olt, excepcion |-> resto.excepcion,
                   eventos |-> << <<"connect", k, "ok">> >> \o CerrarSesion(k)
                               \o resto.eventos ]

identificar_olt_vsol(ip, dev, conn) == IdentificarDesde(ip, dev, 1, conn)

\* An identification that goes on to the port check and the shell prober
\* after SNMP matched (the return after the SNMP commit is missing)
verificar_ip_sin_return(ip, dev, conn) ==
    LET snmp_info == probar_snmp_olt(ip, dev)
        ssh_info == identificar_olt_vsol(ip, dev, conn)
        olt_snmp == [ OLTInfo(ip, <<"OLT-", ip[2]>>, <<>>)
                      EXCEPT !.snmp_community = Some(communities[1]) ]
    IN  [ olt |-> IF snmp_info.info # None /\ ~puerto_abierto(dev) THEN Some(olt_snmp)
                  ELSE IF puerto_abierto(dev) THEN ssh_info.olt ELSE None,
          excepcion |-> None,
          pasos |-> << <<"snmp", snmp_info.consultas, snmp_info.info # None>>,
                       <<"port22", puerto_abierto(dev)>> >>
                    \o (IF puerto_abierto(dev) THEN << <<"ssh", ssh_info.eventos>> >>
                        ELSE <<>>) ]

\* An identification that commits every address as an SNMP discovery,
\* whether or not a community matched
verificar_ip_registra_todo(ip, dev, conn) ==
    LET snmp_info == probar_snmp_olt(ip, dev)
    IN  [ olt |-> Some([ OLTInfo(ip, <<"OLT-", ip[2]>>, <<>>)
                         EXCEPT !.snmp_community = Some(communities[1]) ]),
          excepcion |-> None,
          pasos |-> << <<"snmp", snmp_info.consultas, FALSE>>, <<"port22", FALSE>> >> ]

\* verificar_ip(ip) up to its store write: olt is the record it is about to
\* store (None: the address contributes nothing); excepcion is the exception
\* that leaves it (None: none); pasos lists what it called, in order:
\* <<"snmp", consultas, matched>>, <<"port22", open>>, <<"ssh", eventos>>.
verificar_ip(ip, dev, conn) ==
    LET snmp_info == probar_snmp_olt(ip, dev)
        ssh_info == identificar_olt_vsol(ip, dev, conn)
    IN  IF snmp_info.info # None
        THEN [ olt |-> Some([ OLTInfo(snmp_info.info[1].ip, snmp_info.info[1].nombre,
                                      snmp_info.info[1].modelo)
                              EXCEPT !.snmp_community = Some(snmp_info.info[1].community) ]),
               excepcion |-> None,
               pasos |-> << <<"snmp", snmp_info.consultas, TRUE>> >> ]
        ELSE IF puerto_abierto(dev)
        THEN [ olt |-> ssh_info.olt,
               excepcion |-> ssh_info.excepcion,
               pasos |-> << <<"snmp", snmp_info.consultas, FALSE>>, <<"port22", TRUE>>,
                            <<"ssh", ssh_info.eventos>> >> ]
        ELSE [ olt |-> None,
               excepcion |-> None,
               pasos |-> << <<"snmp", snmp_info.consultas, FALSE>>,
                            <<"port22", FALSE>> >> ]

\* A store write that rebuilds the map from the written entry alone, losing
\* what other tasks stored
StoreOltSinOtros(store, ip, olt_info) == [ a \in {ip} |-> olt_info ]

\* A store write that adds the units of a re-discovered device to the units
\* already counted for it
StoreOltAcumula(store, ip, olt_info) ==
    [ a \in DOMAIN store \cup {ip} |->
        IF a # ip THEN store[a]
        ELSE IF ip \in DOMAIN store
        THEN [ olt_info EXCEPT !.total_onus = @ + store[ip].total_onus ]
        ELSE olt_info ]

\* A write that is held back until the pass ends
StoreOltDiferido(store, ip, olt_info) == store

\* self.olts_detectadas[ip] = olt_info
StoreOlt(store, ip, olt_info) ==
    [ a \in DOMAIN store \cup {ip} |-> IF a = ip THEN olt_info ELSE store[a] ]

\* guardar_olt(olt_info): INSERT OR REPLACE of the row of olt_info.ip
guardar_olt(tabla, olt_info) ==
    [ a \in DOMAIN tabla \cup {olt_info.ip} |->
        IF a = olt_info.ip
        THEN [nombre |-> olt_info.nombre, modelo |-> olt_info.modelo]
        ELSE tabla[a] ]

\* guardar_olt(olt_info) on the connection conn: tabla is the table as it
\* leaves it, log whether logging.error was called, excepcion whether an
\* exception leaves guardar_olt (the rollback of the except block raised).
GuardarOltCon(conn, tabla, olt_info) ==
    [ tabla |-> IF conn.estado = "ok" THEN guardar_olt(tabla, olt_info) ELSE tabla,
      log |-> conn.estado # "ok",
      excepcion |-> GuardarLanza(conn) ]

\* A pool that drops what is still queued when one of its tasks raised
TrasTareaFallidaCancela(pendientes) == <<>>

\* executor.submit(verificar_ip, ip): an exception that leaves the task is
\* kept in its Future, which nobody reads; what was submitted stays queued
TrasTareaFallida(pendientes) == pendientes

\* obtener_info_snmp_olt(ip, community): the dictionary it returns; every
\* query that fails leaves None (or an empty list) under its key
obtener_info_snmp_olt(dev, community) ==
    LET k == CHOOSE x \in DOMAIN communities : communities[x] = community
    IN  [ sysDescr |-> snmp_get(dev, "sysDescr", k),
          sysName |-> snmp_get(dev, "sysName", k),
          sysLocation |-> None,
          interfaces |-> <<>>,
          onu_count |-> 0 ]

\* actualizar_olt_snmp(olt_info): `if info` is the truth value of the
\* dictionary, which is false only when it has no key
actualizar_olt_snmp(dev, olt_info) ==
    IF olt_info.snmp_community = None THEN FALSE
    ELSE DOMAIN obtener_info_snmp_olt(dev, olt_info.snmp_community[1]) # {}

\* A refresh that drops the device whose connection failed
RefrescoFallidoBorra(store, ip) == [ a \in DOMAIN store \ {ip} |-> store[a] ]

\* The except branch of one device of actualizar_todas_olts: the error is
\* logged and the map is left as it is
RefrescoFallido(store, ip) == store

\* One device of actualizar_todas_olts.  store is the map as the body leaves
\* it, contada whether actualizadas was incremented, eventos the re-queries
\* made in order: <<"snmp", community>>, <<"connect", k, outcome>>.
actualizar_una_olt(store, ip, dev, conn) ==
    LET olt_info == store[ip]
        c == ssh_connect(dev, 1)
    IN  IF olt_info.snmp_community # None /\ actualizar_olt_snmp(dev, olt_info)
        THEN [ store |-> store, contada |-> TRUE,
               eventos |-> << <<"snmp", olt_info.snmp_community[1]>> >> ]
        ELSE LET previos == IF olt_info.snmp_community # None
                            THEN << <<"snmp", olt_info.snmp_community[1]>> >>
                            ELSE <<>>
             IN  IF c # "ok"
                 THEN [ store |-> RefrescoFallido(store, ip), contada |-> FALSE,
                        eventos |-> previos \o << <<"connect", 1, c>> >> ]
                 ELSE [ store |-> [store EXCEPT
                                     ![ip] = actualizar_informacion_olt(dev, olt_info,
                                                                        conn)],
                        contada |-> TRUE,
                        eventos |-> previos \o << <<"connect", 1, "ok">> >>
                                    \o CerrarSesion(1) ]

(***************************************************************************)
(* Statistics.                                                             *)
(***************************************************************************)
\* A statistics pass that counts a unit at the threshold too
obtener_estadisticas_con_umbral(store) ==
    LET bajas(a) == { i \in DOMAIN store[a].onus_detalladas :
                        store[a].onus_detalladas[i].rx_power <= -27 }
        Total[S \in SUBSET DOMAIN store] ==
            IF S = {} THEN [onus |-> 0, bajas |-> 0]
            ELSE LET a == CHOOSE x \in S : TRUE
                     r == Total[S \ {a}]
                 IN  [ onus |-> r.onus + store[a].total_onus,
                       bajas |-> r.bajas + Cardinality(bajas(a)) ]
    IN  [ total_olts |-> Cardinality(DOMAIN store),
          total_onus |-> Total[DOMAIN store].onus,
          olts_online |-> Cardinality(DOMAIN store),
          onus_senal_baja |-> Total[DOMAIN store].bajas ]

\* The inner loop of obtener_estadisticas over olt.onus_detalladas, from the
\* i-th unit on: the units with onu.rx_power < -27
RECURSIVE SenalBajaDesde(_, _)
SenalBajaDesde(onus, i) ==
    IF i > Len(onus) THEN 0
    ELSE (IF onus[i].rx_power < -27 THEN 1 ELSE 0) + SenalBajaDesde(onus, i + 1)

\* obtener_estadisticas(): the sum and the loop over
\* self.olts_detectadas.values()
obtener_estadisticas(store) ==
    LET Total[S \in SUBSET DOMAIN store] ==
            IF S = {} THEN [onus |-> 0, bajas |-> 0]
            ELSE LET a == CHOOSE x \in S : TRUE
                     r == Total[S \ {a}]
                 IN  [ onus |-> r.onus + store[a].total_onus,
                       bajas |-> r.bajas + SenalBajaDesde(store[a].onus_detalladas, 1) ]
    IN  [ total_olts |-> Cardinality(DOMAIN store),
          total_onus |-> Total[DOMAIN store].onus,
          olts_online |-> Cardinality(DOMAIN store),
          onus_senal_baja |-> Total[DOMAIN store].bajas ]

(***************************************************************************)
(* Networks.                                                               *)
(***************************************************************************)
T_vsol == <<"V","S","O","L">>

T_vsol_lower == <<"v","s","o","l">>

T_gpon_lower == <<"g","p","o","n">>

T_router == <<"r","o","u","t","e","r">>

T_generic == <<"g","e","n","e","r","i","c">>

T_model == <<"M","o","d","e","l">>

T_v1600 == <<"V","1","6","0","0">>

T_hostname == <<"h","o","s","t","n","a","m","e">>

T_central == <<"c","e","n","t","r","a","l">>

\* Interface tokens with two slashes, as show gpon onu state prints them
T_if1 == <<"g","p","o","n","0","/","1","/","1">>

T_if2 == <<"g","p","o","n","0","/","1","/","2">>

\* The decimal digits of a natural number, and the token of an integer
RECURSIVE DigitosDe(_)
DigitosDe(n) ==
    IF n < 10 THEN << Digitos[n + 1] >>
    ELSE Append(DigitosDe(n \div 10), Digitos[(n % 10) + 1])

Decimal(n) == IF n < 0 THEN <<"-">> \o DigitosDe(0 - n) ELSE DigitosDe(n)

T_onu == <<"o","n","u">>

T_working == <<"w","o","r","k","i","n","g">>

\* A line of the listing with the outputs of the three detail commands
Linea(partes, detalles) == [partes |-> partes, detalles |-> detalles]

\* The output of a detail command that reports a serial (or none) and the
\* optical powers
Detalle(serial, rx_power, tx_power) ==
    (IF serial = None THEN <<>>
     ELSE << << <<"S","e","r","i","a","l",":">>, serial[1] >> >>)
    \o << << <<"R","x">>, <<"p","o","w","e","r">>, Decimal(rx_power) >>,
           << <<"T","x">>, <<"p","o","w","e","r">>, Decimal(tx_power) >> >>

\* A unit row whose first detail command answers
Fila(interfaz, onu_id, serial, rx_power) ==
    Linea(<< interfaz, <<onu_id>>, T_working, T_onu >>,
          << Detalle(serial, rx_power, 2), <<>>, <<>> >>)

\* Nothing answers
Dead ==
    [ sysdescr |-> [k \in DOMAIN communities |-> None], sysname |-> None,
      port22 |-> FALSE, ssh |-> [k \in DOMAIN credenciales |-> "timeout"],
      cmd_ok |-> FALSE, version_info |-> <<>>, system_info |-> <<>>,
      temperatura |-> None, cpu |-> None, memoria |-> None, onus |-> <<>> ]

\* A device that answers over the shell only: ssh says which credentials
\* connect, version_info what show version prints
ShellDev(ssh, version_info, onus) ==
    [ Dead EXCEPT !.port22 = TRUE, !.ssh = ssh, !.cmd_ok = TRUE,
                  !.version_info = version_info,
                  !.system_info = << <<T_hostname, T_central>> >>,
                  !.temperatura = Some(45), !.cpu = Some(25), !.memoria = Some(60),
                  !.onus = onus ]

VersionVsol == << <<T_vsol, T_gpon_lower>>, <<T_model, T_v1600>> >>

VersionOtro == << <<T_generic, T_router>> >>

DosOnus ==
    << Fila(T_if1, "1", Some(<<"SN1">>), -20), Fila(T_if1, "2", None, -28) >>

UnaOnu == << Fila(T_if2, "1", Some(<<"SN9">>), -30) >>

\* An interface token with one slash
T_if_malo == <<"g","p","o","n","0","/","1">>

\* A listing whose second row has the one-slash interface
OnusMalas ==
    << Fila(T_if1, "1", Some(<<"SN1">>), -20), Fila(T_if_malo, "2", None, -28) >>

\* A device that answers SNMP under the k-th community with that description
SnmpDev(k, descr, base) ==
    [ base EXCEPT !.sysdescr = [j \in DOMAIN communities |->
                                   IF j = k THEN Some(descr) ELSE None],
                  !.sysname = Some(T_central) ]

\* What ssh.connect does per credential: every pattern of accepted and
\* rejected credentials, and every kind of failure at every position
ResultadosSsh ==
    [DOMAIN credenciales -> {"ok", "auth"}]
    \cup { <<"auth", "timeout", "neterr">>, <<"timeout", "neterr", "auth">>,
           <<"neterr", "auth", "timeout">>, <<"auth", "timeout", "ok">>,
           <<"timeout", "neterr", "ok">>, <<"neterr", "ok", "ok">> }

\* What may answer at the one live address of the one-device networks
PerfilesSonda ==
    { ShellDev(ssh, v, o) :
        ssh \in ResultadosSsh,
        v \in {VersionVsol, VersionOtro}, o \in {DosOnus} }
    \cup { SnmpDev(k, d, b) :
             k \in DOMAIN communities,
             d \in { <<T_vsol_lower, T_gpon_lower>>, <<T_generic, T_router>> },
             b \in { Dead, ShellDev(<<"auth", "ok", "ok">>, VersionVsol, UnaOnu) } }
    \cup { [Dead EXCEPT !.ssh = <<"ok", "ok", "ok">>] }

\* What may answer at a live address of the many-device networks
PerfilesRed ==
    { SnmpDev(1, <<T_vsol_lower, T_gpon_lower>>, Dead),
      ShellDev(<<"auth", "ok", "auth">>, VersionVsol, UnaOnu) }

\* Devices at which something fails inside the identification: the parse of
\* a row, every command, the first connections
DevFilaMala == ShellDev(<<"timeout", "neterr", "ok">>, VersionVsol, OnusMalas)

DevSinComandos == [ShellDev(<<"ok", "ok", "ok">>, VersionVsol, UnaOnu) EXCEPT !.cmd_ok = FALSE]

DevSnmp == SnmpDev(2, <<T_vsol_lower, T_gpon_lower>>, Dead)

PerfilesFallo == { DevFilaMala, DevSinComandos, DevSnmp }

\* The address the one-device networks put their device at
AddrSonda == <<rangos_ip[1], 1>>

RedesSonda ==
    { [a \in Addr |-> IF a = AddrSonda THEN p ELSE Dead] : p \in PerfilesSonda }

\* The addresses the many-device networks put devices at: two of one range
\* and one of another range
AddrRed == { <<rangos_ip[1], 1>>, <<rangos_ip[1], 2>>, <<rangos_ip[2], 1>> }

Redes ==
    { [a \in Addr |-> IF a \in AddrRed THEN f[a] ELSE Dead] :
        f \in [AddrRed -> PerfilesRed \cup {Dead}] }

\* A network with failures of every kind inside the identification
RedesDb ==
    { [a \in Addr |->
          IF a = <<rangos_ip[1], 1>> THEN DevFilaMala
          ELSE IF a = <<rangos_ip[1], 2>> THEN DevSinComandos
          ELSE IF a = <<rangos_ip[2], 1>> THEN DevSnmp
          ELSE Dead] }

\* A network with a matching device at every address of the first range and
\* at the first address of the second
RedesPool ==
    { [a \in Addr |->
          IF a[1] = rangos_ip[1] \/ a[2] = 1 THEN DevSnmp ELSE Dead] }

\* A device stops answering commands, or goes off the network
Degradaciones(dev) ==
    { [dev EXCEPT !.cmd_ok = FALSE], Dead } \ {dev}

\* Every kind of device a network of the model may hold
PerfilesTodos ==
    LET base == PerfilesSonda \cup PerfilesRed \cup PerfilesFallo \cup {Dead}
    IN  base \cup UNION { Degradaciones(d) : d \in base }

\* verificar_ip and the body of the refresh loop read the network only;
\* these are their results for every address and kind of device, tabulated
\* once (@@ builds the table of values)
Verificada ==
    [a \in Addr, d \in PerfilesTodos, c \in EstadosDb |-> verificar_ip(a, d, c)] @@ <<>>
(***************************************************************************)
(* State.                                                                  *)
(***************************************************************************)
Keys(store) == DOMAIN store

\* The counts of a device map: per address, total_onus and onus_por_puerto
Resumen(store) ==
    [ a \in Keys(store) |->
        [ total_onus |-> store[a].total_onus,
          onus_por_puerto |-> store[a].onus_por_puerto ] ]

TareaLibre == [pc |-> "idle", olt_info |-> None, via |-> None]

\* How the record of a match was obtained: the community, or the index of
\* the credential whose connection succeeded
ViaDe(res) ==
    IF res.olt = None THEN None
    ELSE IF res.olt[1].snmp_community # None
    THEN Some(<<"snmp", res.olt[1].snmp_community[1]>>)
    ELSE LET ev == res.pasos[3][2]
         IN  Some(<<"ssh", ev[Len(ev) - 1][2]>>)

\* GET /api/olts: the records of the map and their number
get_olts(store) ==
    [ olts |-> { store[a] : a \in DOMAIN store },
      total |-> Cardinality(DOMAIN store) ]

\* GET /api/olts/<olt_ip>: the record of the address, or the error answer
\* GET /api/onus/<olt_ip>
get_onus_by_olt(store, olt_ip) ==
    IF olt_ip \in DOMAIN store
    THEN [onus |-> store[olt_ip].onus_detalladas, total |-> store[olt_ip].total_onus]
    ELSE [onus |-> <<>>, total |-> 0]

get_olt_detail(store, olt_ip) ==
    IF olt_ip \in DOMAIN store THEN Some(store[olt_ip]) ELSE None

\* cargar_olts_existentes(): one OLTInfo per row of the table olts
cargar_olts_existentes(tabla) ==
    [ a \in DOMAIN tabla |-> OLTInfo(a, tabla[a].nombre, tabla[a].modelo) ]

\* The table olts as a former run may have left it
TablasIniciales ==
    { EmptyDict,
      [ a \in {AddrSonda} |-> [nombre |-> T_central, modelo |-> <<T_vsol>>] ] }

HistoriaInicial ==
    [ antes |-> {}, coincidencias |-> {},
      sondeos |-> [a \in Addr |-> 0],
      pasos |-> [a \in Addr |-> <<>>],
      excepciones |-> {},
      resultado |-> None,
      previo |-> None, ultimo |-> None, quieto |-> FALSE, ultimoQuieto |-> FALSE,
      descubierta |-> [a \in Addr |-> None],
      refrescada |-> None,
      guardado |-> [a \in Addr |-> None],
      colaAlFallar |-> FALSE ]

\* No pure function was called
SinCalculo == [op |-> "ninguna", arg |-> <<>>, hecho |-> FALSE, res |-> <<>>]

InitBase(redes, conexiones, llamadas) ==
    /\ net \in redes
    /\ db_conn \in conexiones
    /\ calc \in llamadas
    /\ db_olts \in TablasIniciales
    /\ olts_detectadas = cargar_olts_existentes(db_olts)
    /\ scanning = FALSE
    /\ cola = [r \in RangeSet |-> <<>>]
    /\ tarea = [a \in Addr |-> TareaLibre]
    /\ refresco = [activo |-> FALSE, claves |-> {}, tam |-> 0, actualizadas |-> 0,
                   error |-> FALSE]
    /\ h = HistoriaInicial

InitCon(redes) == InitBase(redes, {DbSana}, {SinCalculo})

Init == InitCon(Redes)

InitSonda == InitCon(RedesSonda)

InitDb == InitBase(RedesDb, EstadosDb, {SinCalculo})

InitPool ==
    InitBase(RedesPool, {DbSana, [is_sqlite |-> FALSE, estado |-> "cerrada"]},
             {SinCalculo})

(***************************************************************************)
(* The scan pass: escanear_red_empresarial.                                *)
(***************************************************************************)
\* The suffixes escanear_rango submits, in order: for i in range(1, 254)
Sufijos == PyRange(1, LastSuffix)

SufijosEnOrden == [i \in 1 .. Cardinality(Sufijos) |-> i]

\* escanear_red_empresarial starts: one thread per range, each with its
\* executor and every address of its loop submitted
IniciarEscaneo ==
    /\ ~scanning
    /\ scanning' = TRUE
    /\ cola' = [r \in RangeSet |-> SufijosEnOrden]
    /\ h' = [h EXCEPT !.antes = Keys(olts_detectadas),
                      !.coincidencias = {},
                      !.sondeos = [a \in Addr |-> 0],
                      !.pasos = [a \in Addr |-> <<>>],
                      !.excepciones = {},
                      !.guardado = [a \in Addr |-> None],
                      !.colaAlFallar = FALSE,
                      !.resultado = None]
    /\ UNCHANGED <<net, olts_detectadas, db_olts, tarea, refresco, db_conn, calc>>

EnCurso(r) == {i \in Hosts : tarea[<<r, i>>].pc # "idle"}

\* An executor that runs every submitted task at once
AdmiteSinLimite(r) == TRUE

\* ThreadPoolExecutor(max_workers=20): the executor of r starts a submitted
\* task only while fewer than max_workers of its tasks are running
Admite(r) == Cardinality(EnCurso(r)) < max_workers

\* An executor shut down without waiting for the tasks that are running
PoolDrenadoSinEsperar(r) == cola[r] = <<>>

\* The with block of the executor of r ends, and the thread of r with it:
\* every submitted task was started and has finished
PoolDrenado(r) ==
    /\ cola[r] = <<>>
    /\ \A i \in Hosts : tarea[<<r, i>>].pc = "idle"

\* A worker of the pool of r takes the next submitted address and runs
\* verificar_ip on it up to its write to the map
TomarTarea(r) ==
    /\ scanning
    /\ cola[r] # <<>>
    /\ Admite(r)
    /\ LET ip == <<r, Head(cola[r])>>
           res == Verificada[ip, net[ip], db_conn]
       IN  /\ cola' = [cola EXCEPT ![r] = Tail(@)]
           /\ tarea' = [tarea EXCEPT ![ip] =
                           IF res.excepcion # None \/ res.olt = None THEN TareaLibre
                           ELSE [pc |-> "store", olt_info |-> res.olt, via |-> ViaDe(res)]]
           /\ h' = [h EXCEPT !.sondeos[ip] = @ + 1,
                             !.pasos[ip] = res.pasos,
                             !.excepciones =
                                 IF res.excepcion = None THEN @ ELSE @ \cup {ip},
                             !.coincidencias =
                                 IF res.excepcion # None \/ res.olt = None
                                 THEN @ ELSE @ \cup {ip}]
    /\ UNCHANGED <<net, olts_detectadas, db_olts, scanning, refresco, db_conn, calc>>

\* self.olts_detectadas[ip] = olt_info
AlmacenarOlt(ip) ==
    /\ tarea[ip].pc = "store"
    /\ olts_detectadas' = StoreOlt(olts_detectadas, ip, tarea[ip].olt_info[1])
    /\ tarea' = [tarea EXCEPT ![ip].pc = "save"]
    /\ h' = [h EXCEPT !.descubierta[ip] = tarea[ip].via]
    /\ UNCHANGED <<net, db_olts, scanning, cola, refresco, db_conn, calc>>

\* self.db.guardar_olt(olt_info), and verificar_ip returns
GuardarOlt(ip) ==
    /\ tarea[ip].pc = "save"
    /\ LET g == GuardarOltCon(db_conn, db_olts, tarea[ip].olt_info[1])
       IN  /\ db_olts' = g.tabla
           /\ cola' = [cola EXCEPT ![ip[1]] =
                          IF g.excepcion THEN TrasTareaFallida(@) ELSE @]
           /\ h' = [h EXCEPT !.guardado[ip] =
                                 Some([log |-> g.log, excepcion |-> g.excepcion,
                                       olt_info |-> tarea[ip].olt_info[1]]),
                             !.excepciones =
                                 IF g.excepcion THEN @ \cup {ip} ELSE @,
                             !.colaAlFallar =
                                 @ \/ (g.excepcion /\ cola[ip[1]] # <<>>)]
    /\ tarea' = [tarea EXCEPT ![ip] = TareaLibre]
    /\ UNCHANGED <<net, olts_detectadas, scanning, refresco, db_conn, calc>>

\* Every executor has drained, every thread is joined:
\* return len(self.olts_detectadas)
TerminarEscaneo ==
    /\ scanning
    /\ \A r \in RangeSet : PoolDrenado(r)
    /\ scanning' = FALSE
    /\ h' = [h EXCEPT !.resultado = Some(Cardinality(Keys(olts_detectadas))),
                      !.previo = h.ultimo,
                      !.ultimo = Some(Resumen(olts_detectadas)),
                      !.ultimoQuieto = h.quieto,
                      !.quieto = TRUE]
    /\ UNCHANGED <<net, olts_detectadas, db_olts, cola, tarea, refresco, db_conn, calc>>

(***************************************************************************)
(* The refresh pass: actualizar_todas_olts.                                *)
(***************************************************************************)
\* for ip, olt_info in self.olts_detectadas.items(): the iterator is made
IniciarRefresco ==
    /\ ~refresco.activo
    /\ refresco' = [refresco EXCEPT !.activo = TRUE,
                                    !.claves = Keys(olts_detectadas),
                                    !.tam = Cardinality(Keys(olts_detectadas)),
                                    !.actualizadas = 0,
                                    !.error = FALSE]
    /\ UNCHANGED <<net, olts_detectadas, db_olts, scanning, cola, tarea, h, db_conn, calc>>

\* The key the iterator yields next
IndiceRango(r) == CHOOSE k \in DOMAIN rangos_ip : rangos_ip[k] = r

SiguienteClave(claves) ==
    CHOOSE a \in claves :
        \A b \in claves :
            \/ IndiceRango(a[1]) < IndiceRango(b[1])
            \/ (a[1] = b[1] /\ a[2] <= b[2])

\* The iterator is asked for its next item after the map changed size:
\* RuntimeError leaves the for statement and actualizar_todas_olts
RefrescoRoto ==
    /\ refresco.activo
    /\ Cardinality(Keys(olts_detectadas)) # refresco.tam
    /\ refresco' = [refresco EXCEPT !.activo = FALSE, !.claves = {},
                                    !.error = TRUE]
    /\ h' = [h EXCEPT !.quieto = FALSE]
    /\ UNCHANGED <<net, olts_detectadas, db_olts, scanning, cola, tarea, db_conn, calc>>

\* One turn of the loop: the body for the next device
PasoRefresco ==
    /\ refresco.activo
    /\ Cardinality(Keys(olts_detectadas)) = refresco.tam
    /\ refresco.claves # {}
    /\ LET ip == SiguienteClave(refresco.claves)
           r == actualizar_una_olt(olts_detectadas, ip, net[ip], db_conn)
       IN  /\ olts_detectadas' = r.store
           /\ refresco' = [refresco EXCEPT
                             !.claves = @ \ {ip},
                             !.actualizadas = IF r.contada THEN @ + 1 ELSE @]
           /\ h' = [h EXCEPT !.quieto = FALSE,
                             !.refrescada = Some([ip |-> ip, eventos |-> r.eventos,
                                                  contada |-> r.contada,
                                                  via |-> h.descubierta[ip]])]
    /\ UNCHANGED <<net, db_olts, scanning, cola, tarea, db_conn, calc>>

\* The iterator is exhausted: return actualizadas
TerminarRefresco ==
    /\ refresco.activo
    /\ Cardinality(Keys(olts_detectadas)) = refresco.tam
    /\ refresco.claves = {}
    /\ refresco' = [refresco EXCEPT !.activo = FALSE]
    /\ UNCHANGED <<net, olts_detectadas, db_olts, scanning, cola, tarea, h, db_conn, calc>>

(***************************************************************************)
(* The environment.                                                        *)
(***************************************************************************)
\* What answers at one address changes
CambioRed(a) ==
    /\ \E d \in Degradaciones(net[a]) : net' = [net EXCEPT ![a] = d]
    /\ h' = [h EXCEPT !.quieto = FALSE]
    /\ UNCHANGED <<olts_detectadas, db_olts, scanning, cola, tarea, refresco, db_conn, calc>>

(***************************************************************************)
(* Calls of the pure functions, on inputs drawn from bounded sets.          *)
(***************************************************************************)
\* The trigger phrases a line of output starts with
FrasesPrueba ==
    { << <<"T","e","m","p","e","r","a","t","u","r","e",":">> >>, << <<"R","X">>, <<"p","o","w","e","r">> >>, << <<"T","x">>, <<"P","o","w","e","r",":">> >>,
      << <<"S","e","r","i","a","l">> >>, << <<"S","N",":">> >>, << <<"l","o","a","d">> >> }

\* Tokens: numbers, number-like tokens float() rejects, percentages, a word
PartesPrueba ==
    { <<"4","5">>, <<"4","5",".","5">>, <<"-","2","8",".","5">>, <<"0">>,
      <<"1",".","2",".","3">>, <<"5","-">>, <<"-","-","5">>, <<"-">>,
      <<"5","0","%">>, <<"5",".","5",".","5","%">>, <<"-","%">>, <<"a","b">> }

LineasPrueba ==
    FrasesPrueba \cup { f \o << n >> : f \in FrasesPrueba, n \in PartesPrueba }

\* Lines that precede the line under test
CabecerasPrueba ==
    { << <<"S","y","s","t","e","m">>, <<"s","t","a","t","u","s">> >>, << <<"t","e","m","p","e","r","a","t","u","r","e",":">>, <<"n","/","a">> >> }

\* '' (no line), one line, two lines
TextosPrueba ==
    { <<>> } \cup { << l >> : l \in LineasPrueba }
    \cup { << c, l >> : c \in CabecerasPrueba, l \in LineasPrueba }

Extractores ==
    { "extraer_temperatura", "extraer_porcentaje", "extraer_serial",
      "extraer_rx_power", "extraer_tx_power" }

AplicarExtractor(f, output) ==
    CASE f = "extraer_temperatura" -> extraer_temperatura(output)
      [] f = "extraer_porcentaje" -> extraer_porcentaje(output)
      [] f = "extraer_serial" -> extraer_serial(output)
      [] f = "extraer_rx_power" -> extraer_rx_power(output)
      [] f = "extraer_tx_power" -> extraer_tx_power(output)

\* RX powers of units, in dBm
ValoresRx == { -20, -27, -28, -30 }

ListasRx == UNION { [1 .. n -> ValoresRx] : n \in 0 .. MaxOnus }

ListasInterfaz == UNION { [1 .. n -> {T_if1, T_if2}] : n \in 0 .. MaxOnus }

\* Units on the given interfaces, with the given RX powers
UnidadesCon(interfaces, rxs) ==
    [ i \in DOMAIN interfaces |->
        ONUInfo(<<"SN", i>>, interfaces[i], <<"1">>, <<"1">>, rxs[i], 2, T_working) ]

\* A device with units of the given RX powers
OltCon(ip, rxs) ==
    [ OLTInfo(ip, T_central, <<T_vsol>>) EXCEPT
        !.onus_detalladas = UnidadesCon([i \in DOMAIN rxs |-> T_if1], rxs),
        !.total_onus = Len(rxs),
        !.onus_por_puerto = [p \in (IF rxs = <<>> THEN {} ELSE {T_if1}) |-> Len(rxs)] ]

\* A map of two devices
StoreDePrueba(rx1, rx2) ==
    [ a \in { <<rangos_ip[1], 1>>, <<rangos_ip[2], 1>> } |->
        IF a[1] = rangos_ip[1] THEN OltCon(a, rx1) ELSE OltCon(a, rx2) ]

\* A listing of two units whose detail outputs report the same serial
OnusRepetidas ==
    << Fila(T_if1, "1", Some(<<"SN1">>), -20), Fila(T_if2, "4", Some(<<"SN1">>), -28) >>

\* Devices a telemetry pass may meet, and the record it starts from
PerfilesTelemetria ==
    { ShellDev(<<"ok", "ok", "ok">>, VersionVsol, o) :
        o \in {DosOnus, UnaOnu, OnusMalas, OnusRepetidas, <<>>} }
    \cup { DevSinComandos }

RegistrosPrevios ==
    { OLTInfo(AddrSonda, T_central, <<T_vsol>>), OltCon(AddrSonda, <<-20, -30, -28>>) }

\* A call about to be made
Llamada(op, arg) == [op |-> op, arg |-> arg, hecho |-> FALSE, res |-> <<>>]

LlamadasPrueba ==
    { Llamada(f, output) : f \in Extractores, output \in TextosPrueba }
    \cup { Llamada("obtener_estadisticas", <<rx1, rx2>>) :
             rx1 \in ListasRx, rx2 \in { <<>>, <<-27>>, <<-30>>, <<0 - 999>> } }
    \cup { Llamada("contar_onus_por_puerto", ifs) : ifs \in ListasInterfaz }
    \cup { Llamada("actualizar_informacion_olt", <<dev, c, previo>>) :
             dev \in PerfilesTelemetria, c \in EstadosDb, previo \in RegistrosPrevios }

Pendiente(ops) == calc.op \in ops /\ ~calc.hecho

\* Answers to the sysDescr query: none, empty, and descriptions with and
\* without a marker in either case
T_olt_v2 == << <<"v","s","o","l">>, <<"g","p","o","n">>, <<"o","l","t">>, <<"v","2">> >>

DescripcionesPrueba ==
    { None, Some(<<>>), Some(T_olt_v2), Some(<<T_generic, T_router>>),
      Some(<< <<"G","p","o","N">> >>), Some(<< <<"V","S","O","L">>, <<"1","6">> >>),
      Some(<< <<"v","o","l","t","a","g","e">> >>), Some(<< <<"v","-","s","o","l">> >>) }

\* Devices that answer SNMP only, with one answer per community
DispositivosSnmp ==
    { [Dead EXCEPT !.sysdescr = d, !.sysname = n] :
        d \in [DOMAIN communities -> DescripcionesPrueba],
        n \in {None, Some(T_central)} }

LlamadasSnmp ==
    { Llamada("probar_snmp_olt", dev) : dev \in DispositivosSnmp }

LlamarSnmp ==
    /\ Pendiente({"probar_snmp_olt"})
    /\ calc' = [calc EXCEPT !.hecho = TRUE,
                            !.res = probar_snmp_olt(AddrSonda, calc.arg)]
    /\ UNCHANGED <<net, olts_detectadas, db_olts, scanning, cola, tarea, refresco,
                   db_conn, h>>

\* Outputs of a detail command: none, the values of a unit with and without
\* a serial, a rejection of the command in two spellings, values followed by
\* a rejection, and a power that is no number
T_invalid == << <<"%">>, <<"I","n","v","a","l","i","d">>, <<"i","n","p","u","t">> >>

SalidasDetalle ==
    { <<>>,
      Detalle(Some(<<"SN1">>), -20, 2),
      Detalle(None, -25, 3),
      << T_invalid >>,
      Detalle(Some(<<"SN7">>), -21, 2)
         \o << << <<"I","N","V","A","L","I","D">>, <<"o","n","u">> >> >>,
      << << <<"R","x">>, <<"p","o","w","e","r">>, <<"1",".","2",".","3">> >> >> }

LlamadasDetalle ==
    { Llamada("obtener_detalles_onu",
              << dev, Linea(<< T_if1, <<"1">>, T_working, T_onu >>, << o1, o2, o3 >>) >>) :
        dev \in { ShellDev(<<"ok", "ok", "ok">>, VersionVsol, <<>>), DevSinComandos },
        o1 \in SalidasDetalle, o2 \in SalidasDetalle, o3 \in SalidasDetalle }

LlamarDetalles ==
    /\ Pendiente({"obtener_detalles_onu"})
    /\ calc' = [calc EXCEPT !.hecho = TRUE,
                            !.res = obtener_detalles_onu(calc.arg[1], calc.arg[2])]
    /\ UNCHANGED <<net, olts_detectadas, db_olts, scanning, cola, tarea, refresco,
                   db_conn, h>>

\* Lines of a listing: unit rows whose interface has two slashes, none and
\* one, a row that repeats a serial, a row whose detail commands are all
\* rejected, and a heading
T_if_plano == <<"g","p","o","n","-","o","n","u","_","1">>

LineasListado ==
    { Fila(T_if1, "1", Some(<<"SN1">>), -20),
      Fila(T_if_plano, "2", Some(<<"SN2">>), -24),
      Fila(T_if_malo, "3", Some(<<"SN3">>), -26),
      Fila(T_if2, "4", Some(<<"SN1">>), -28),
      Linea(<< T_if2, <<"5">>, T_working, T_onu >>, << << T_invalid >>, <<>>, << T_invalid >> >>),
      Linea(<< <<"g","p","o","n">>, <<"o","n","u">>, <<"s","t","a","t","e">> >>,
            << <<>>, <<>>, <<>> >>) }

Listados ==
    UNION { [1 .. n -> LineasListado] : n \in 0 .. MaxOnus }

\* Listings of rows that parse, rows that do not, and headings
ListadosCortos ==
    UNION { [1 .. n -> { Fila(T_if1, "1", Some(<<"SN1">>), -20),
                         Fila(T_if_malo, "3", Some(<<"SN3">>), -26),
                         Linea(<< <<"g","p","o","n">>, <<"o","n","u">>, <<"s","t","a","t","e">> >>,
                               << <<>>, <<>>, <<>> >>) }] : n \in 0 .. MaxOnus }

LlamadasListado ==
    { Llamada("obtener_informacion_onus",
              << ShellDev(<<"ok", "ok", "ok">>, VersionVsol, filas), c >>) :
        filas \in Listados, c \in EstadosDb }

LlamarListado ==
    /\ Pendiente({"obtener_informacion_onus"})
    /\ calc' = [calc EXCEPT !.hecho = TRUE,
                            !.res = InformeDeOnus(calc.arg[1], calc.arg[2])]
    /\ UNCHANGED <<net, olts_detectadas, db_olts, scanning, cola, tarea, refresco,
                   db_conn, h>>

\* The record of a device discovered over the shell, and over SNMP
RegistrosDescubiertos ==
    { OLTInfo(AddrSonda, T_central, <<T_vsol>>),
      [ OLTInfo(AddrSonda, T_central, <<T_vsol>>)
        EXCEPT !.snmp_community = Some(communities[1]) ] }

\* Calls of the operations that open shell sessions, on every kind of device
LlamadasSesion ==
    { Llamada("identificar_olt_vsol", <<dev, c>>) :
        dev \in PerfilesTodos, c \in EstadosDb }
    \cup { Llamada("actualizar_todas_olts", <<dev, c, previo>>) :
             dev \in PerfilesTodos, c \in EstadosDb, previo \in RegistrosDescubiertos }

LlamarIdentificacion ==
    /\ Pendiente({"identificar_olt_vsol"})
    /\ calc' = [calc EXCEPT
                  !.hecho = TRUE,
                  !.res = identificar_olt_vsol(AddrSonda, calc.arg[1], calc.arg[2])]
    /\ UNCHANGED <<net, olts_detectadas, db_olts, scanning, cola, tarea, refresco,
                   db_conn, h>>

\* actualizar_todas_olts on a map that holds one device
LlamarRefresco ==
    /\ Pendiente({"actualizar_todas_olts"})
    /\ calc' = [calc EXCEPT
                  !.hecho = TRUE,
                  !.res = actualizar_una_olt([a \in {AddrSonda} |-> calc.arg[3]],
                                             AddrSonda, calc.arg[1], calc.arg[2])]
    /\ UNCHANGED <<net, olts_detectadas, db_olts, scanning, cola, tarea, refresco,
                   db_conn, h>>

LlamarExtractor ==
    /\ Pendiente(Extractores)
    /\ calc' = [calc EXCEPT !.hecho = TRUE, !.res = AplicarExtractor(calc.op, calc.arg)]
    /\ UNCHANGED <<net, olts_detectadas, db_olts, scanning, cola, tarea, refresco,
                   db_conn, h>>

LlamarEstadisticas ==
    /\ Pendiente({"obtener_estadisticas"})
    /\ calc' = [calc EXCEPT
                  !.hecho = TRUE,
                  !.res = obtener_estadisticas(StoreDePrueba(calc.arg[1], calc.arg[2]))]
    /\ UNCHANGED <<net, olts_detectadas, db_olts, scanning, cola, tarea, refresco,
                   db_conn, h>>

LlamarConteo ==
    /\ Pendiente({"contar_onus_por_puerto"})
    /\ calc' = [calc EXCEPT
                  !.hecho = TRUE,
                  !.res = contar_onus_por_puerto(
                              UnidadesCon(calc.arg, [i \in DOMAIN calc.arg |-> -20]))]
    /\ UNCHANGED <<net, olts_detectadas, db_olts, scanning, cola, tarea, refresco,
                   db_conn, h>>

LlamarTelemetria ==
    /\ Pendiente({"actualizar_informacion_olt"})
    /\ calc' = [calc EXCEPT
                  !.hecho = TRUE,
                  !.res = actualizar_informacion_olt(calc.arg[1], calc.arg[3], calc.arg[2])]
    /\ UNCHANGED <<net, olts_detectadas, db_olts, scanning, cola, tarea, refresco,
                   db_conn, h>>

\* The database connection breaks, closes or recovers
CambioDb ==
    /\ \E c \in EstadosDb :
          /\ c.is_sqlite = db_conn.is_sqlite
          /\ c # db_conn
          /\ db_conn' = c
    /\ UNCHANGED <<net, olts_detectadas, db_olts, scanning, cola, tarea, refresco,
                   calc, h>>

Next ==
    \/ IniciarEscaneo
    \/ \E r \in RangeSet : TomarTarea(r)
    \/ \E a \in Addr : AlmacenarOlt(a)
    \/ \E a \in Addr : GuardarOlt(a)
    \/ TerminarEscaneo
    \/ IniciarRefresco
    \/ RefrescoRoto
    \/ PasoRefresco
    \/ TerminarRefresco
    \/ \E a \in Addr : CambioRed(a)

\* The monitor alone, on a network that does not change
NextRed ==
    \/ (~refresco.activo /\ IniciarEscaneo)
    \/ \E r \in RangeSet : TomarTarea(r)
    \/ \E a \in Addr : AlmacenarOlt(a)
    \/ \E a \in Addr : GuardarOlt(a)
    \/ TerminarEscaneo
    \/ (~scanning /\ IniciarRefresco)
    \/ PasoRefresco
    \/ TerminarRefresco

\* Many devices, few kinds of device, an unchanging network
Spec == Init /\ [][NextRed]_vars

\* One device, every kind of device, a network that changes
SpecSonda == InitSonda /\ [][Next]_vars

\* The scan pass alone, on a database connection that fails
NextDb ==
    \/ IniciarEscaneo
    \/ \E r \in RangeSet : TomarTarea(r)
    \/ \E a \in Addr : AlmacenarOlt(a)
    \/ \E a \in Addr : GuardarOlt(a)
    \/ TerminarEscaneo
    \/ CambioDb

SpecDb == InitDb /\ [][NextDb]_vars

\* The scan pass alone, on a network whose first range keeps its pool full
NextPool ==
    \/ IniciarEscaneo
    \/ \E r \in RangeSet : TomarTarea(r)
    \/ \E a \in Addr : AlmacenarOlt(a)
    \/ \E a \in Addr : GuardarOlt(a)
    \/ TerminarEscaneo

SpecPool == InitPool /\ [][NextPool]_vars

\* A step of a pass that is running: a worker thread of an executor, or the
\* caller of escanear_red_empresarial past its joins
PasoDeEscaneo ==
    \/ \E r \in RangeSet : TomarTarea(r)
    \/ \E a \in Addr : AlmacenarOlt(a)
    \/ \E a \in Addr : GuardarOlt(a)
    \/ TerminarEscaneo

\* Threads that can run do run, and every probe ends by its timeout
SpecPoolJusto == SpecPool /\ WF_vars(PasoDeEscaneo)

(***************************************************************************)
(* The web layer: POST /api/scan.  calc holds the request: arg says whether *)
(* the call of the pass raises (monitor is None when the module was not    *)
(* run as a script), hecho whether start_scan has returned, res the        *)
(* answer, the position of the thread scan_background and the notices it   *)
(* has emitted, in order.                                                  *)
(***************************************************************************)
PeticionScan(falla) ==
    [ op |-> "start_scan", arg |-> falla, hecho |-> FALSE,
      res |-> [respuesta |-> None, pc |-> "inicio", avisos |-> <<>>,
               avisosAlResponder |-> <<>>] ]

InitWeb ==
    InitBase(RedesPool, {DbSana, [is_sqlite |-> FALSE, estado |-> "cerrada"]},
             { PeticionScan(f) : f \in BOOLEAN })

\* return jsonify({'status': 'scan_started'}), the thread already started
ResponderScan ==
    /\ calc.op = "start_scan"
    /\ ~calc.hecho
    /\ calc' = [calc EXCEPT !.hecho = TRUE,
                            !.res.respuesta = Some("scan_started"),
                            !.res.avisosAlResponder = calc.res.avisos]
    /\ UNCHANGED <<net, olts_detectadas, db_olts, scanning, cola, tarea, refresco,
                   db_conn, h>>

\* socketio.emit('scan_status', {'status': 'started', ...})
EmitirStarted ==
    /\ calc.op = "start_scan"
    /\ calc.res.pc = "inicio"
    /\ calc' = [calc EXCEPT !.res.pc = "llamar",
                            !.res.avisos = Append(@, "started")]
    /\ UNCHANGED <<net, olts_detectadas, db_olts, scanning, cola, tarea, refresco,
                   db_conn, h>>

\* A thread that emits 'completed' after its except branch emitted 'error'
TrasEscaneoDoble(avisos, falla) ==
    IF falla THEN avisos \o <<"error", "completed">> ELSE Append(avisos, "completed")

\* What scan_background emits after the call of the pass: 'completed' when
\* it returned, 'error' from the except branch when it raised
TrasEscaneo(avisos, falla) ==
    Append(avisos, IF falla THEN "error" ELSE "completed")

\* monitor.escanear_red_empresarial() begins
LlamarEscaneo ==
    /\ calc.op = "start_scan"
    /\ calc.res.pc = "llamar"
    /\ ~calc.arg
    /\ h.resultado = None
    /\ IniciarEscaneo

\* The call raised, or returned: the terminal notice
EmitirTerminal ==
    /\ calc.op = "start_scan"
    /\ calc.res.pc = "llamar"
    /\ calc.arg \/ (~scanning /\ h.resultado # None)
    /\ calc' = [calc EXCEPT !.res.pc = "fin",
                            !.res.avisos = TrasEscaneo(@, calc.arg)]
    /\ UNCHANGED <<net, olts_detectadas, db_olts, scanning, cola, tarea, refresco,
                   db_conn, h>>

NextWeb ==
    \/ ResponderScan
    \/ EmitirStarted
    \/ LlamarEscaneo
    \/ \E r \in RangeSet : TomarTarea(r)
    \/ \E a \in Addr : AlmacenarOlt(a)
    \/ \E a \in Addr : GuardarOlt(a)
    \/ TerminarEscaneo
    \/ EmitirTerminal

SpecWeb == InitWeb /\ [][NextWeb]_vars

(***************************************************************************)
(* The telemetry pass over one device, step by step.  calc holds the pass: *)
(* arg is the device, and the record of the store the pass refreshes       *)
(* (None when the pass is the one of a discovery, whose record is not in   *)
(* the store yet); res holds the position of the thread (pc), the object   *)
(* olt_info, the index of the next line of the listing, the local list     *)
(* onus, the units guardar_onu has written and the samples                 *)
(* guardar_metrica has written.  In a refresh olt_info is                  *)
(* the object the store holds, so what is assigned to it is in the store.  *)
(***************************************************************************)
PaseSobre(dev, previo) ==
    [ op |-> "pase", arg |-> <<dev, previo>>, hecho |-> FALSE,
      res |-> [ pc |-> "metricas",
                olt_info |-> IF previo = None
                             THEN OLTInfo(AddrSonda, T_central, <<T_vsol>>)
                             ELSE previo[1],
                i |-> 1, onus |-> <<>>, guardadas |-> <<>>, metricas |-> <<>> ] ]

\* What the three commands of a pass report: readings, a reading of 0, and
\* outputs that hold no reading
LecturasPrueba ==
    { << Some(45), Some(25), Some(60) >>, << Some(0), Some(25), Some(60) >>,
      << None, Some(0), Some(60) >>, << Some(45), None, Some(0) >> }

ConLecturas(dev, lecturas) ==
    [ dev EXCEPT !.temperatura = lecturas[1], !.cpu = lecturas[2],
                 !.memoria = lecturas[3] ]

\* An INSERT into onus or metricas is taken: the connection works and, on
\* PostgreSQL, the row of the device exists (FOREIGN KEY (olt_ip) REFERENCES
\* olts (ip); SQLite does not enforce it, no PRAGMA foreign_keys is issued)
InsertAceptado(conn, tabla, olt_ip) ==
    conn.estado = "ok" /\ (conn.is_sqlite \/ olt_ip \in DOMAIN tabla)

\* if valor: self.db.guardar_metrica(olt_info.ip, tipo, valor)
MuestraDe(tipo, valor, aceptado) ==
    IF Verdadero(valor) /\ aceptado
    THEN << [tipo |-> tipo, valor |-> valor[1]] >>
    ELSE <<>>

InitPase ==
    /\ net = [a \in Addr |-> Dead]
    /\ db_conn \in {[is_sqlite |-> TRUE, estado |-> "ok"],
                     [is_sqlite |-> FALSE, estado |-> "ok"],
                     [is_sqlite |-> FALSE, estado |-> "cerrada"],
                     [is_sqlite |-> TRUE, estado |-> "error"]}
    /\ calc \in { PaseSobre(ConLecturas(ShellDev(<<"ok", "ok", "ok">>, VersionVsol, filas),
                                          lecturas), previo) :
                     filas \in ListadosCortos, lecturas \in LecturasPrueba,
                     previo \in {None} \cup { Some(r) : r \in RegistrosPrevios } }
    /\ db_olts = IF calc.arg[2] = None THEN EmptyDict
                  ELSE guardar_olt(EmptyDict, calc.arg[2][1])
    /\ olts_detectadas = IF calc.arg[2] = None THEN EmptyDict
                          ELSE [a \in {AddrSonda} |-> calc.arg[2][1]]
    /\ scanning = FALSE
    /\ cola = [r \in RangeSet |-> <<>>]
    /\ tarea = [a \in Addr |-> TareaLibre]
    /\ refresco = [activo |-> FALSE, claves |-> {}, tam |-> 0, actualizadas |-> 0,
                   error |-> FALSE]
    /\ h = HistoriaInicial

\* The store after an assignment to olt_info
ConOltInfo(store, olt_info) ==
    IF olt_info.ip \in DOMAIN store
    THEN [store EXCEPT ![olt_info.ip] = olt_info]
    ELSE store

MuestrasDelPase(temperatura, cpu, memoria, aceptado) ==
    MuestraDe("temperatura", temperatura, aceptado)
    \o MuestraDe("cpu", cpu, aceptado) \o MuestraDe("memoria", memoria, aceptado)

\* Steps 1 and 2 of actualizar_informacion_olt: the three readings and
\* their guardar_metrica calls
LeerMetricas ==
    /\ calc.op = "pase"
    /\ calc.res.pc = "metricas"
    /\ LET dev == calc.arg[1]
           temperatura == Lectura(dev, dev.temperatura)
           cpu == Lectura(dev, dev.cpu)
           memoria == Lectura(dev, dev.memoria)
           con_temp == [ calc.res.olt_info EXCEPT !.temperatura = temperatura ]
           con_cpu == [ con_temp EXCEPT !.consumo_cpu = cpu, !.consumo_memoria = memoria ]
           lanza_temp == GuardarLanza(db_conn) /\ Verdadero(temperatura)
           lanza_cpu == GuardarLanza(db_conn) /\ (Verdadero(cpu) \/ Verdadero(memoria))
           olt_info == IF lanza_temp THEN con_temp ELSE con_cpu
       IN  /\ calc' = [calc EXCEPT
                         !.res.olt_info = olt_info,
                         !.res.metricas =
                             MuestrasDelPase(temperatura, cpu, memoria,
                                             InsertAceptado(db_conn, db_olts, AddrSonda)),
                         !.res.pc = IF lanza_temp \/ lanza_cpu THEN "volver" ELSE "listado"]
           /\ olts_detectadas' = ConOltInfo(olts_detectadas, olt_info)
    /\ UNCHANGED <<net, db_olts, scanning, cola, tarea, refresco, db_conn, h>>

\* One turn of the loop of obtener_informacion_onus: the next line of the
\* listing, its detail commands, onus.append and guardar_onu
LeerLinea ==
    /\ calc.op = "pase"
    /\ calc.res.pc = "listado"
    /\ LET dev == calc.arg[1]
           filas == ejecutar_comando(dev, dev.onus)
           i == calc.res.i
       IN  IF i > Len(filas)
           THEN calc' = [calc EXCEPT !.res.pc = "asignar"]
           ELSE IF ~EsFilaDeUnidad(filas[i])
           THEN calc' = [calc EXCEPT !.res.i = i + 1]
           ELSE IF FilaFalla(filas[i])
           THEN calc' = [calc EXCEPT !.res.pc = "asignar"]
           ELSE calc' = [calc EXCEPT
                           !.res.onus = Append(@, OnuDeFila(dev, filas[i])),
                           !.res.guardadas = IF InsertAceptado(db_conn, db_olts, AddrSonda)
                                             THEN Append(@, OnuDeFila(dev, filas[i]))
                                             ELSE @,
                           !.res.i = i + 1,
                           !.res.pc = IF GuardarLanza(db_conn) THEN "asignar"
                                      ELSE "listado"]
    /\ UNCHANGED <<net, olts_detectadas, db_olts, scanning, cola, tarea, refresco,
                   db_conn, h>>

\* An assignment to a field of olt_info, after which the thread is at pc
Asignar(olt_info, pc) ==
    /\ calc' = [calc EXCEPT !.res.olt_info = olt_info, !.res.pc = pc]
    /\ olts_detectadas' = ConOltInfo(olts_detectadas, olt_info)
    /\ UNCHANGED <<net, db_olts, scanning, cola, tarea, refresco, db_conn, h>>

\* Step 3 of actualizar_informacion_olt, after obtener_informacion_onus has
\* returned its list: olt_info.onus_detalladas = onus_info
AsignarLista ==
    /\ calc.op = "pase"
    /\ calc.res.pc = "asignar"
    /\ Asignar([calc.res.olt_info EXCEPT !.onus_detalladas = calc.res.onus], "total")

\* olt_info.total_onus = len(onus_info)
AsignarTotal ==
    /\ calc.op = "pase"
    /\ calc.res.pc = "total"
    /\ Asignar([calc.res.olt_info EXCEPT !.total_onus = Len(calc.res.onus)], "puertos")

\* Step 4: olt_info.onus_por_puerto = self.contar_onus_por_puerto(onus_info)
AsignarPuertos ==
    /\ calc.op = "pase"
    /\ calc.res.pc = "puertos"
    /\ Asignar([calc.res.olt_info EXCEPT
                  !.onus_por_puerto = contar_onus_por_puerto(calc.res.onus)], "volver")

\* actualizar_informacion_olt returns.  In a discovery verificar_ip now
\* puts the record in the store (self.olts_detectadas[ip] = olt_info) and
\* writes its row (self.db.guardar_olt(olt_info)).
VolverDelPase ==
    /\ calc.op = "pase"
    /\ calc.res.pc = "volver"
    /\ calc' = [calc EXCEPT !.res.pc = "fin", !.hecho = TRUE]
    /\ olts_detectadas' = IF calc.arg[2] = None
                           THEN StoreOlt(olts_detectadas, AddrSonda, calc.res.olt_info)
                           ELSE olts_detectadas
    /\ db_olts' = IF calc.arg[2] = None
                   THEN GuardarOltCon(db_conn, db_olts, calc.res.olt_info).tabla
                   ELSE db_olts
    /\ UNCHANGED <<net, scanning, cola, tarea, refresco, db_conn, h>>

NextPase ==
    \/ LeerMetricas
    \/ LeerLinea
    \/ AsignarLista
    \/ AsignarTotal
    \/ AsignarPuertos
    \/ VolverDelPase

SpecPase == InitPase /\ [][NextPase]_vars

\* The pure functions alone
InitCalculo ==
    /\ InitBase({ [a \in Addr |-> Dead] }, {DbSana}, LlamadasPrueba \cup LlamadasSesion \cup LlamadasSnmp
               \cup LlamadasDetalle \cup LlamadasListado)
    /\ db_olts = EmptyDict

NextCalculo ==
    \/ LlamarExtractor
    \/ LlamarEstadisticas
    \/ LlamarConteo
    \/ LlamarTelemetria
    \/ LlamarIdentificacion
    \/ LlamarRefresco
    \/ LlamarSnmp
    \/ LlamarDetalles
    \/ LlamarListado

SpecCalculo == InitCalculo /\ [][NextCalculo]_vars

(***************************************************************************)
(* Properties.                                                             *)
(***************************************************************************)
PaseTerminado == ~scanning /\ h.resultado # None

\* C1: when a scan pass has returned, olts_detectadas holds an entry for
\* exactly the addresses present before the pass and the addresses whose
\* verificar_ip task returned a match, and the count the pass returns is the
\* number of those addresses, whatever the interleaving of the tasks' writes.
C1_SinPerdidaNiDuplicado ==
    PaseTerminado =>
        /\ Keys(olts_detectadas) = h.antes \cup h.coincidencias
        /\ h.resultado[1] = Cardinality(h.antes \cup h.coincidencias)

\* Three tasks, two of one pool and one of another, matched in one pass that
\* started from an empty map
C1_Testigo ==
    /\ PaseTerminado
    /\ h.antes = {}
    /\ h.coincidencias = AddrRed
    /\ h.resultado = Some(3)

\* C2: a scan pass that follows another with nothing in between and on the
\* same network ends with the same addresses and, per address, the same
\* total_onus and onus_por_puerto as the pass before it.
C2_PasesIdempotentes ==
    (h.previo # None /\ h.ultimoQuieto) => h.ultimo = h.previo

\* Two passes in succession over a network with a shell device that has a unit
C2_Testigo ==
    /\ h.previo # None
    /\ h.ultimoQuieto
    /\ \E a \in Keys(olts_detectadas) :
          /\ a \in DOMAIN h.ultimo[1]
          /\ h.ultimo[1][a].total_onus = 1
    /\ Cardinality(DOMAIN h.ultimo[1]) >= 2

\* C3 (as claimed): when a scan pass has returned, exactly one task was
\* submitted for every host suffix 1 .. LastSuffix of every range.
C3_TodosLosSufijos ==
    PaseTerminado => \A a \in Addr : h.sondeos[a] = 1

\* The events of the shell prober in the last probe of address a
EventosSsh(a) ==
    IF Len(h.pasos[a]) >= 3 THEN h.pasos[a][3][2] ELSE <<>>

\* Its connection attempts, in order
Conexiones(a) == SelectSeq(EventosSsh(a), LAMBDA e : e[1] = "connect")

\* C4 (as claimed): the shell prober attempts the credentials in list order
\* and makes no connection attempt after the first one that succeeded.
C4_NadaTrasConectar ==
    \A a \in Addr :
        LET con == Conexiones(a)
        IN  /\ \A i \in DOMAIN con : con[i][2] = i
            /\ \A i \in DOMAIN con : con[i][3] = "ok" => i = Len(con)

\* C5: in the shell prober a connection that fails, however it fails, is
\* followed by an attempt with the next credential of the list while there
\* is one; the prober returns no match only after it attempted every
\* credential, and it raises nothing.
C5_FalloNoAborta ==
    \A a \in Addr :
        LET con == Conexiones(a)
        IN  Len(h.pasos[a]) >= 3 =>
              /\ \A i \in DOMAIN con :
                    (con[i][3] \in ConnectFailures /\ con[i][2] < Len(credenciales))
                        => (i < Len(con) /\ con[i + 1][2] = con[i][2] + 1)
              /\ a \notin h.coincidencias => Len(con) = Len(credenciales)
              /\ a \notin h.excepciones

\* The first two credentials fail in different ways, the third connects and
\* the device matches
C5_Testigo ==
    \E a \in Addr :
        /\ Conexiones(a) = << <<"connect", 1, "auth">>, <<"connect", 2, "timeout">>,
                              <<"connect", 3, "ok">> >>
        /\ a \in h.coincidencias

\* Every credential fails and the prober returns no match
C5_TestigoAgotado ==
    \E a \in Addr :
        /\ Len(Conexiones(a)) = Len(credenciales)
        /\ \A i \in DOMAIN Conexiones(a) : Conexiones(a)[i][3] \in ConnectFailures
        /\ a \notin h.coincidencias
        /\ a \notin h.excepciones

\* C6: verificar_ip queries SNMP first; when SNMP matched, it calls neither
\* the port check nor the shell prober and the address is committed with the
\* community that matched; the shell prober runs only after SNMP returned no
\* match and the port check found port 22 open.
C6_SnmpPrimero ==
    \A a \in Addr :
        LET ps == h.pasos[a]
        IN  ps # <<>> =>
              /\ ps[1][1] = "snmp"
              /\ ps[1][3] =>
                    /\ Len(ps) = 1
                    /\ \/ /\ tarea[a].pc = "store"
                          /\ tarea[a].olt_info[1].snmp_community
                                = Some(ps[1][2][Len(ps[1][2])])
                       \/ /\ a \in Keys(olts_detectadas)
                          /\ olts_detectadas[a].snmp_community
                                = Some(ps[1][2][Len(ps[1][2])])
              /\ \A i \in DOMAIN ps :
                    ps[i][1] = "ssh" =>
                        /\ ~ps[1][3]
                        /\ i = 3
                        /\ ps[2] = <<"port22", TRUE>>
              /\ \A i \in DOMAIN ps : ps[i][1] = "port22" => (i = 2 /\ ~ps[1][3])

\* SNMP matched under the second community at an address where a shell
\* device answers too, and the task has committed it
C6_Testigo ==
    \E a \in Addr :
        /\ h.pasos[a] = << <<"snmp", communities, TRUE>> >>
        /\ net[a].port22
        /\ tarea[a].pc = "idle"
        /\ a \in Keys(olts_detectadas)
        /\ olts_detectadas[a].snmp_community = Some(communities[2])

\* Neither protocol yields a match at a device
SinCoincidencia(dev) ==
    /\ \A k \in DOMAIN communities : ~SysdescrEsOlt(dev.sysdescr[k])
    /\ \/ ~dev.port22
       \/ \A k \in DOMAIN credenciales :
             ~(dev.ssh[k] = "ok" /\ es_olt_vsol(ejecutar_comando(dev, dev.version_info)))

\* C7: the step in which verificar_ip runs on an address where neither SNMP
\* nor the shell prober yields a match leaves olts_detectadas and the table
\* olts as they were, raises nothing and ends the task; and no address is
\* probed twice in one pass.
C7_SinCoincidenciaSinEfecto ==
    /\ [][ \A a \in Addr :
             (h'.sondeos[a] = h.sondeos[a] + 1 /\ SinCoincidencia(net[a])) =>
                 /\ olts_detectadas' = olts_detectadas
                 /\ db_olts' = db_olts
                 /\ tarea'[a].pc = "idle"
                 /\ a \notin h'.excepciones ]_vars
    /\ [](\A a \in Addr : h.sondeos[a] <= 1)

\* A pass has probed, once, an address with port 22 closed and an address
\* with port 22 open whose device is no match and was in the map before
C7_Testigo ==
    /\ PaseTerminado
    /\ \E a \in Addr :
          /\ h.sondeos[a] = 1 /\ SinCoincidencia(net[a]) /\ ~net[a].port22
    /\ \E a \in Addr :
          /\ h.sondeos[a] = 1 /\ SinCoincidencia(net[a]) /\ net[a].port22
          /\ a \in h.antes

\* C8: no step of the monitor or of the network removes an address from
\* olts_detectadas.
C8_NuncaSeBorra ==
    [][ Keys(olts_detectadas) \subseteq Keys(olts_detectadas') ]_vars

\* A refresh pass has met a device that did not let it connect, and the
\* device is still in the map
C8_Testigo ==
    /\ h.refrescada # None
    /\ ~h.refrescada[1].contada
    /\ h.refrescada[1].ip \in Keys(olts_detectadas)
    /\ ~refresco.activo

\* A device does not respond: no community gets an answer, and either no
\* credential connects or the commands return no output
NoResponde(dev) ==
    /\ \A k \in DOMAIN communities : dev.sysdescr[k] = None
    /\ \/ \A k \in DOMAIN credenciales : ssh_connect(dev, k) # "ok"
       \/ ~dev.cmd_ok

\* C9 (as claimed): the turn of the refresh loop for a device that does not
\* respond leaves the record of that device as it was.
C9_SinRespuestaSinCambio ==
    [][ \A a \in Keys(olts_detectadas) :
          ( /\ PasoRefresco
            /\ a = SiguienteClave(refresco.claves)
            /\ NoResponde(net[a]) )
          => olts_detectadas'[a] = olts_detectadas[a] ]_vars

\* C10 (as claimed): the first re-query the refresh pass makes for a device
\* uses what succeeded at its discovery: the community for a device found
\* over SNMP, the credential that connected for a device found over the
\* shell; the first credential is used only after that re-query failed.
C10_MismaViaQueAlDescubrir ==
    h.refrescada # None =>
        LET ev == h.refrescada[1].eventos
            d == h.refrescada[1].via
        IN  d # None =>
              /\ d[1][1] = "snmp" => ev[1] = <<"snmp", d[1][2]>>
              /\ d[1][1] = "ssh" => (ev[1][1] = "connect" /\ ev[1][2] = d[1][2])

\* The addresses a pass submits a task for
Sometidas == { a \in Addr : a[2] \in Sufijos }

\* C11 (as claimed): when guardar_olt fails for a matched device, the failure
\* is logged, no exception leaves guardar_olt into the task, and the device
\* is in olts_detectadas with the new record.
C11_FalloDePersistenciaContenido ==
    \A a \in Addr :
        (h.guardado[a] # None /\ h.guardado[a][1].log) =>
            /\ ~h.guardado[a][1].excepcion
            /\ a \in Keys(olts_detectadas)
            /\ olts_detectadas[a] = h.guardado[a][1].olt_info

\* C12: when a scan pass has returned, every address it submitted was probed
\* once, whatever failed inside the tasks, an exception that left a task
\* included.
C12_FallosContenidos ==
    PaseTerminado => \A a \in Sometidas : h.sondeos[a] = 1

\* A pass has returned although a task, at a device with a row that does
\* not parse, ended with an exception while addresses of its range were
\* still queued, and a device whose commands fail was probed too
C12_Testigo ==
    /\ PaseTerminado
    /\ h.colaAlFallar
    /\ \E a \in h.excepciones : net[a] = DevFilaMala
    /\ \E a \in Sometidas : net[a] = DevSinComandos /\ h.sondeos[a] = 1
    /\ \A a \in Sometidas : h.sondeos[a] = 1

\* C13 (as claimed): every call of a telemetry extractor returns, a value or
\* its sentinel; none raises.
C13_ExtractoresNuncaFallan ==
    (calc.hecho /\ calc.op \in Extractores) => calc.res # Lanza

\* C19: obtener_estadisticas reports as onus_senal_baja the number of units,
\* over every device of the map, whose RX power is below -27; a unit at -27
\* is not counted.
C19_SenalBajaEstricta ==
    (calc.hecho /\ calc.op = "obtener_estadisticas") =>
        calc.res.onus_senal_baja =
            Cardinality({ u \in {1, 2} \X (1 .. MaxOnus) :
                            /\ u[2] \in DOMAIN calc.arg[u[1]]
                            /\ calc.arg[u[1]][u[2]] < -27 })

\* One device with units at -20, -28 and -30 and another with a unit at -27:
\* two units are reported
C19_Testigo ==
    /\ calc.hecho
    /\ calc.op = "obtener_estadisticas"
    /\ calc.arg = << <<-20, -28, -30>>, <<-27>> >>
    /\ calc.res.onus_senal_baja = 2

\* The sum of the values of a map
RECURSIVE SumaValores(_)
SumaValores(f) ==
    IF DOMAIN f = {} THEN 0
    ELSE LET p == CHOOSE x \in DOMAIN f : TRUE
         IN  f[p] + SumaValores([q \in DOMAIN f \ {p} |-> f[q]])

\* C20: contar_onus_por_puerto maps each interface of the list to the number
\* of units on it; and the record a telemetry pass leaves has an
\* onus_por_puerto that is the count of its unit list, with values that sum
\* to total_onus.
C20_ConteoPorPuerto ==
    /\ (calc.hecho /\ calc.op = "contar_onus_por_puerto") =>
          /\ DOMAIN calc.res = { calc.arg[i] : i \in DOMAIN calc.arg }
          /\ \A p \in DOMAIN calc.res :
                calc.res[p] = Cardinality({ i \in DOMAIN calc.arg : calc.arg[i] = p })
    /\ (calc.hecho /\ calc.op = "actualizar_informacion_olt") =>
          /\ SumaValores(calc.res.onus_por_puerto) = calc.res.total_onus
          /\ calc.res.total_onus = Len(calc.res.onus_detalladas)
          /\ \A p \in DOMAIN calc.res.onus_por_puerto :
                calc.res.onus_por_puerto[p] =
                    Cardinality({ i \in DOMAIN calc.res.onus_detalladas :
                                    calc.res.onus_detalladas[i].interfaz = p })

\* Units on p1, p1 and p2 are counted as two on p1 and one on p2
C20_Testigo ==
    /\ calc.hecho
    /\ calc.op = "contar_onus_por_puerto"
    /\ calc.arg = <<T_if1, T_if1, T_if2>>
    /\ calc.res = [p \in {T_if1, T_if2} |-> IF p = T_if1 THEN 2 ELSE 1]

\* C14: escanear_red_empresarial returns only when every submitted task of
\* every range was started and has finished, and a pass that started always
\* returns.
C14_PaseEsperaYTermina ==
    /\ [][ (scanning /\ ~scanning') =>
              \A a \in Sometidas : h.sondeos[a] = 1 /\ tarea[a].pc = "idle" ]_vars
    /\ (scanning ~> ~scanning)

\* A pass has returned after two tasks of a range ran at once and a task
\* ended in an exception
C14_Testigo ==
    /\ PaseTerminado
    /\ h.excepciones # {}
    /\ \A a \in Sometidas : h.sondeos[a] = 1 /\ tarea[a].pc = "idle"
    /\ Cardinality(h.coincidencias) > max_workers

\* C15: a device whose task of this pass returned a match is in the map, and
\* in the answers of the list and detail readers, once that task has ended,
\* whether or not the pass has.
C15_VisibleAlTerminarLaTarea ==
    \A a \in h.coincidencias :
        tarea[a].pc = "idle" =>
            /\ a \in Keys(olts_detectadas)
            /\ get_olt_detail(olts_detectadas, a) # None
            /\ get_olt_detail(olts_detectadas, a)[1] \in get_olts(olts_detectadas).olts
            /\ get_olt_detail(olts_detectadas, a)[1].ip = a

\* A new device is visible while the pass runs, another task of its range
\* is running and addresses are still queued
C15_Testigo ==
    /\ scanning
    /\ \E a \in h.coincidencias \ h.antes :
          /\ tarea[a].pc = "idle"
          /\ get_olt_detail(olts_detectadas, a) # None
          /\ \E b \in Addr : b[1] = a[1] /\ tarea[b].pc = "store"
          /\ cola[a[1]] # <<>>

C17_IteracionSinCambioDeTamano == ~refresco.error

\* Every connection that succeeded is followed at once by the close of its
\* session
SesionesCerradas(eventos) ==
    \A i \in DOMAIN eventos :
        (eventos[i][1] = "connect" /\ eventos[i][3] = "ok") =>
            /\ i < Len(eventos)
            /\ eventos[i + 1] = <<"close", eventos[i][2]>>

\* C18: every session identificar_olt_vsol or actualizar_todas_olts opened
\* is closed before the next connection attempt and before the operation
\* returns, whatever failed after the connection.
C18_SesionesSiempreCerradas ==
    (calc.hecho /\ calc.op \in {"identificar_olt_vsol", "actualizar_todas_olts"}) =>
        SesionesCerradas(calc.res.eventos)

\* The third credential connects to a device whose unit listing raises, on
\* a database connection whose writes raise: the session is closed
C18_Testigo ==
    /\ calc.hecho
    /\ calc.op = "identificar_olt_vsol"
    /\ calc.arg[1] = DevFilaMala
    /\ GuardarLanza(calc.arg[2])
    /\ calc.res.eventos = << <<"connect", 1, "timeout">>, <<"connect", 2, "neterr">>,
                             <<"connect", 3, "ok">>, <<"close", 3>> >>

\* A description holds a marker when case is ignored: some run of its
\* characters equals the marker letter for letter, whatever the case
ContieneMarcaSinCaso(sysdescr) ==
    /\ sysdescr # None
    /\ \E m \in MarcasSnmp :
          \E t \in DOMAIN sysdescr[1] :
             \E i \in 0 .. (Len(sysdescr[1][t]) - Len(m)) :
                \A j \in 1 .. Len(m) :
                    LowerChar(sysdescr[1][t][i + j]) = LowerChar(m[j])

\* C21: probar_snmp_olt reports a match exactly when the description some
\* community returns holds a marker, case ignored; an address whose queries
\* return nothing or an empty description is never a match.
C21_MarcasSinCaso ==
    (calc.hecho /\ calc.op = "probar_snmp_olt") =>
        /\ (calc.res.info # None) <=>
              \E k \in DOMAIN communities : ContieneMarcaSinCaso(calc.arg.sysdescr[k])
        /\ (\A k \in DOMAIN communities : calc.arg.sysdescr[k] \in {None, Some(<<>>)})
              => calc.res.info = None

\* "vsol gpon olt v2" matched under the second community after "generic
\* router" did not under the first
C21_Testigo ==
    /\ calc.hecho
    /\ calc.op = "probar_snmp_olt"
    /\ calc.arg.sysdescr = << Some(<<T_generic, T_router>>), Some(T_olt_v2) >>
    /\ calc.res.info # None
    /\ calc.res.info[1].modelo = T_olt_v2

\* The communities whose description holds a marker
Coincidentes(dev) ==
    { k \in DOMAIN communities : ContieneMarcaSinCaso(dev.sysdescr[k]) }

\* C22: probar_snmp_olt queries the communities in order up to and
\* including the first that matches and returns that community; when none
\* matches it has queried them all and returns None.
C22_PrimeraComunidad ==
    (calc.hecho /\ calc.op = "probar_snmp_olt") =>
        LET ks == Coincidentes(calc.arg)
            k1 == CHOOSE k \in ks : \A j \in ks : k <= j
        IN  IF ks = {}
            THEN /\ calc.res.info = None
                 /\ calc.res.consultas = communities
            ELSE /\ calc.res.info # None
                 /\ calc.res.info[1].community = communities[k1]
                 /\ calc.res.consultas = SubSeq(communities, 1, k1)

\* Both communities would match: only the first was queried
C22_Testigo ==
    /\ calc.hecho
    /\ calc.op = "probar_snmp_olt"
    /\ Coincidentes(calc.arg) = DOMAIN communities
    /\ calc.res.consultas = << communities[1] >>
    /\ calc.res.info[1].community = communities[1]

\* The auth token a record carries: the dynamic attribute snmp_community is
\* the only place OLTInfo has for one
TokenDe(olt_info) ==
    IF olt_info.snmp_community # None
    THEN Some(<<"snmp", olt_info.snmp_community[1]>>)
    ELSE None

\* C26 (as claimed): the record of every device discovered carries the token
\* that succeeded at its discovery, the community or the credential index.
C26_TokenDeDescubrimiento ==
    \A a \in Keys(olts_detectadas) :
        h.descubierta[a] # None => TokenDe(olts_detectadas[a]) = h.descubierta[a]

\* C25: start_scan answers 'scan_started' whatever the thread of the pass
\* is doing; that thread emits 'started', then one terminal notice, which
\* is 'error' exactly when the call of the pass raised; a failure inside a
\* task of the pass changes neither the answer nor the notice.
C25_AvisosDelEscaneo ==
    calc.op = "start_scan" =>
        LET avisos == calc.res.avisos
        IN  /\ ~calc.hecho => ENABLED ResponderScan
            /\ calc.hecho => calc.res.respuesta = Some("scan_started")
            /\ Len(avisos) <= 2
            /\ Len(avisos) >= 1 => avisos[1] = "started"
            /\ Len(avisos) = 2 => avisos[2] = (IF calc.arg THEN "error" ELSE "completed")
            /\ scanning => avisos = <<"started">>
            /\ calc.res.pc = "fin" <=> Len(avisos) = 2

\* The answer was given before the pass had emitted anything; the pass,
\* in which a task ended in an exception, then emitted its two notices
C25_Testigo ==
    /\ calc.op = "start_scan"
    /\ calc.hecho
    /\ calc.res.avisosAlResponder = <<>>
    /\ calc.res.avisos = <<"started", "completed">>
    /\ h.excepciones # {}

\* The text holds the letters of 'invalid' in a row, in either case
TieneInvalid(output) ==
    LET marca == <<"i","n","v","a","l","i","d">>
    IN  \E l \in DOMAIN output : \E t \in DOMAIN output[l] :
           \E i \in 0 .. (Len(output[l][t]) - Len(marca)) :
              \A j \in 1 .. Len(marca) :
                  LowerChar(output[l][t][i + j]) = LowerChar(marca[j])

\* What the k-th detail command answers in the call at hand
SalidaDeDetalle(k) ==
    IF calc.arg[1].cmd_ok THEN calc.arg[2].detalles[k] ELSE <<>>

Ganadores == { k \in 1 .. 3 : SalidaDeDetalle(k) # <<>> /\ ~TieneInvalid(SalidaDeDetalle(k)) }

PrimerGanador == CHOOSE k \in Ganadores : \A j \in Ganadores : k <= j

SinSerialNiPotencias(r) ==
    r.serial = None /\ r.rx_power = 0 - 999 /\ r.tx_power = 0 - 999

\* The first unit row of a listing
PrimeraFila(filas) ==
    LET unidades == { i \in DOMAIN filas : EsFilaDeUnidad(filas[i]) }
    IN  filas[CHOOSE i \in unidades : \A j \in unidades : i <= j]

\* C27: obtener_detalles_onu runs the three detail commands in their fixed
\* order up to and including the first whose output is not empty and does
\* not hold 'invalid' in either case, and runs none after it; its answer is
\* read from that output alone.  When no output is usable all three were
\* run and the answer is no serial with RX and TX at -999, and the unit
\* built from that row has the serial UNKNOWN-<interface>-<unit id>.
C27_PrimerDetalleGana ==
    /\ (calc.op = "obtener_detalles_onu" /\ calc.hecho) =>
          IF Ganadores = {}
          THEN calc.res.ejecutados = comandos /\ SinSerialNiPotencias(calc.res)
          ELSE /\ calc.res.ejecutados = SubSeq(comandos, 1, PrimerGanador)
               /\ LET output == SalidaDeDetalle(PrimerGanador)
                      serial == extraer_serial(output)
                  IN  \/ SinSerialNiPotencias(calc.res)
                         /\ Lanza \in {extraer_rx_power(output), extraer_tx_power(output)}
                      \/ /\ Lanza \notin {extraer_rx_power(output), extraer_tx_power(output)}
                         /\ calc.res.serial = (IF serial = Nada THEN None ELSE Some(serial.v))
                         /\ calc.res.rx_power * 100 = extraer_rx_power(output).v
                         /\ calc.res.tx_power * 100 = extraer_tx_power(output).v
    /\ (calc.op = "obtener_informacion_onus" /\ calc.hecho /\ calc.res.onus # <<>>) =>
          LET fila == PrimeraFila(calc.arg[1].onus)
          IN  (\A k \in 1 .. 3 : fila.detalles[k] = <<>> \/ TieneInvalid(fila.detalles[k]))
              => /\ calc.res.onus[1].serial = <<"UNKNOWN", fila.partes[1], fila.partes[2]>>
                 /\ calc.res.onus[1].rx_power = 0 - 999
                 /\ calc.res.onus[1].tx_power = 0 - 999

\* The first command was rejected, the second and the third both answered
\* with values, and the call ran two commands and returned the second's
C27_Testigo ==
    /\ calc.op = "obtener_detalles_onu"
    /\ calc.hecho
    /\ calc.arg[1].cmd_ok
    /\ calc.arg[2].detalles = << << T_invalid >>, Detalle(None, -25, 3),
                                 Detalle(Some(<<"SN1">>), -20, 2) >>
    /\ calc.res.ejecutados = << comandos[1], comandos[2] >>
    /\ calc.res.serial = None
    /\ calc.res.rx_power = -25
    /\ calc.res.tx_power = 3

\* The lines of a listing that match the unit-row pattern, in their order
FilasDeUnidad(filas) == SelectSeq(filas, EsFilaDeUnidad)

\* C30: on a database that accepts every write, obtener_informacion_onus
\* returns one unit for each line of the listing that holds 'gpon' and
\* 'onu' and has four tokens or more, in the order of the listing, whatever
\* the number of slashes in its interface token, and none for other lines.
C30_UnaUnidadPorFila ==
    (calc.op = "obtener_informacion_onus" /\ calc.hecho /\ calc.arg[2].estado = "ok") =>
        LET filas == FilasDeUnidad(calc.arg[1].onus)
        IN  /\ Len(calc.res.onus) = Len(filas)
            /\ \A i \in DOMAIN filas : calc.res.onus[i].interfaz = filas[i].partes[1]

\* The index of the first unit row of the listing that fails to parse, or 0
PrimeraFilaMala(filas) ==
    LET malas == { i \in DOMAIN filas : EsFilaDeUnidad(filas[i]) /\ FilaFalla(filas[i]) }
    IN  IF malas = {} THEN 0 ELSE CHOOSE i \in malas : \A j \in malas : i <= j

\* The units of the unit rows above the i-th line, each built from its row
UnidadesAntesDe(dev, filas, i) ==
    LET previas == FilasDeUnidad(SubSeq(filas, 1, i - 1))
    IN  [ k \in DOMAIN previas |-> OnuDeFila(dev, previas[k]) ]

\* C28: when a line of the listing fails to parse, the call of
\* obtener_informacion_onus returns (it raises nothing) with the list and
\* the database writes it would have made on the listing cut above that
\* line; on a database that accepts every write these are the units of all
\* the unit rows above the line, each returned and each written.
C28_ProgresoParcial ==
    (calc.op = "obtener_informacion_onus" /\ calc.hecho
       /\ PrimeraFilaMala(calc.arg[1].onus) > 0) =>
        LET dev == calc.arg[1]
            mala == PrimeraFilaMala(dev.onus)
            cortado == InformeDeOnus([dev EXCEPT !.onus = SubSeq(dev.onus, 1, mala - 1)],
                                     calc.arg[2])
        IN  /\ calc.res.onus = cortado.onus
            /\ calc.res.guardadas = cortado.guardadas
            /\ calc.arg[2].estado = "ok" =>
                  /\ calc.res.onus = UnidadesAntesDe(dev, dev.onus, mala)
                  /\ calc.res.guardadas = calc.res.onus

\* Two unit rows, then a row that fails to parse, on a sound database: both
\* units are returned and written
C28_Testigo ==
    /\ calc.op = "obtener_informacion_onus"
    /\ calc.hecho
    /\ calc.arg[2] = DbSana
    /\ Len(calc.arg[1].onus) = 3
    /\ PrimeraFilaMala(calc.arg[1].onus) = 3
    /\ Len(calc.res.onus) = 2
    /\ calc.res.guardadas = calc.res.onus
    /\ calc.res.error

SerialesDistintos(onus) ==
    \A i \in DOMAIN onus : \A j \in DOMAIN onus : onus[i].serial = onus[j].serial => i = j

\* C23: after a telemetry pass the unit list of the record holds at most
\* one unit per serial.
C23_SerialUnico ==
    (calc.op = "actualizar_informacion_olt" /\ calc.hecho) =>
        SerialesDistintos(calc.res.onus_detalladas)

\* The pass got as far as the listing: no write of a metric raised
PaseCompleto ==
    LET dev == calc.arg[1]
    IN  ~(/\ GuardarLanza(calc.arg[2])
          /\ dev.cmd_ok
          /\ \E valor \in {dev.temperatura, dev.cpu, dev.memoria} :
                 valor # None /\ valor[1] # 0)

\* C24: after a telemetry pass that got as far as the listing, the unit
\* list of the record is the list parsed in that pass and nothing else: its
\* length is the count of the record, and a unit of the previous list whose
\* serial the pass did not parse is in it no more.
C24_ListaReemplazada ==
    (calc.op = "actualizar_informacion_olt" /\ calc.hecho /\ PaseCompleto) =>
        LET informe == InformeDeOnus(calc.arg[1], calc.arg[2])
            previas == calc.arg[3].onus_detalladas
        IN  /\ calc.res.onus_detalladas = informe.onus
            /\ calc.res.total_onus = Len(informe.onus)
            /\ \A i \in DOMAIN previas :
                  (\A j \in DOMAIN informe.onus : informe.onus[j].serial # previas[i].serial)
                  => \A k \in DOMAIN calc.res.onus_detalladas :
                        calc.res.onus_detalladas[k] # previas[i]

\* A record of three units refreshed from a listing of two other units
C24_Testigo ==
    /\ calc.op = "actualizar_informacion_olt"
    /\ calc.hecho
    /\ PaseCompleto
    /\ calc.arg[1].cmd_ok
    /\ calc.arg[1].onus = DosOnus
    /\ Len(calc.arg[3].onus_detalladas) = 3
    /\ Len(calc.res.onus_detalladas) = 2
    /\ \A k \in 1 .. 2 : \A i \in 1 .. 3 :
          calc.res.onus_detalladas[k].serial # calc.arg[3].onus_detalladas[i].serial

\* The units the pass has parsed so far: the local list of
\* obtener_informacion_onus while the listing is read or has just ended
EnElListado == calc.op = "pase" /\ calc.res.pc \in {"listado", "asignar"}

\* C29: while a pass reads the listing of a device, every unit it has
\* parsed so far is among the units a reader of the store gets for that
\* device.
C29_VisibleAlParsear ==
    EnElListado =>
        \A k \in DOMAIN calc.res.onus :
            \E j \in DOMAIN get_onus_by_olt(olts_detectadas, AddrSonda).onus :
                get_onus_by_olt(olts_detectadas, AddrSonda).onus[j] = calc.res.onus[k]

\* C34: obtener_estadisticas does not count as onus_senal_baja a unit whose
\* RX power is -999, the value that stands for no reading: it reports the
\* number of units whose RX power is a reading below -27.
C34_SinLecturaNoEsBaja ==
    (calc.hecho /\ calc.op = "obtener_estadisticas") =>
        calc.res.onus_senal_baja =
            Cardinality({ u \in {1, 2} \X (1 .. MaxOnus) :
                            /\ u[2] \in DOMAIN calc.arg[u[1]]
                            /\ calc.arg[u[1]][u[2]] < -27
                            /\ calc.arg[u[1]][u[2]] # 0 - 999 })

\* The samples of one kind the pass has written
MuestrasDe(tipo) ==
    { k \in DOMAIN calc.res.metricas : calc.res.metricas[k].tipo = tipo }

\* C33: on a database that accepts every write (the connection works and
\* the device has its row, or the database is SQLite), a pass that has read
\* its three metrics has written exactly one sample of each kind whose
\* command gave a value, 0 included, and none of a kind whose command gave
\* None.
C33_UnaMuestraPorLectura ==
    (calc.op = "pase" /\ calc.res.pc # "metricas" /\ db_conn.estado = "ok"
       /\ (db_conn.is_sqlite \/ calc.arg[2] # None)) =>
        LET dev == calc.arg[1]
            leido == [ temperatura |-> Lectura(dev, dev.temperatura),
                       cpu |-> Lectura(dev, dev.cpu),
                       memoria |-> Lectura(dev, dev.memoria) ]
        IN  \A tipo \in DOMAIN leido :
               Cardinality(MuestrasDe(tipo)) = IF leido[tipo] = None THEN 0 ELSE 1

\* C31: in every state of a telemetry pass, each record of the store has a
\* total_onus equal to the length of its onus_detalladas and to the sum of
\* the values of its onus_por_puerto.
C31_ConteosCoherentes ==
    calc.op = "pase" =>
        \A a \in DOMAIN olts_detectadas :
            /\ olts_detectadas[a].total_onus = Len(olts_detectadas[a].onus_detalladas)
            /\ olts_detectadas[a].total_onus = SumaValores(olts_detectadas[a].onus_por_puerto)

\* C32: in the pass of a discovery, once guardar_onu (and guardar_trafico
\* after it) has been called for a unit of the device, the row of the
\* device has been written by guardar_olt.
C32_OltAntesQueOnu ==
    (calc.op = "pase" /\ calc.arg[2] = None /\ calc.res.onus # <<>>) =>
        AddrSonda \in DOMAIN db_olts

\* The device answers the re-query of the record: an SNMP answer on the
\* community of the record, or a shell session with the first credential
RespondeAlRefresco(dev, olt_info) ==
    \/ /\ olt_info.snmp_community # None
       /\ \E k \in DOMAIN communities :
             communities[k] = olt_info.snmp_community[1] /\ dev.sysdescr[k] # None
    \/ ssh_connect(dev, 1) = "ok"

\* C35: actualizar_todas_olts counts a device as updated exactly when the
\* device answered its re-query, over SNMP or over the shell.
C35_CuentaLasQueResponden ==
    (calc.op = "actualizar_todas_olts" /\ calc.hecho) =>
        (calc.res.contada <=> RespondeAlRefresco(calc.arg[1], calc.arg[3]))

====
